---- MODULE Spec2Model ----
(***************************************************************************)
(* Regulatory rule engine (3_deliverables/rule_engine.py): the rule store, *)
(* load_rules, apply_rules with its four evaluators, the registered        *)
(* calculation functions and validate_rule_consistency.                    *)
(*                                                                         *)
(* Python values are tagged records so that values of different Python     *)
(* types can be told apart and compared.  A float is an exact fraction     *)
(* v/d (rounding of IEEE doubles is not modelled).  A Python exception is  *)
(* a record with a "raise" key; an operator that can raise returns either  *)
(* its value or such a record.  load_rules is modelled from the parsed      *)
(* content of the rules file on (json.load is not modelled).  One call of  *)
(* apply_rules is a sequence of steps, one per iteration of its for loop,  *)
(* because it reads the clock anew in every iteration; no other call       *)
(* starts while one is in its loop, except under SpecConcurrent, where a   *)
(* second thread calls load_rules, one step per statement that reads or    *)
(* writes the store, beside the thread that calls apply_rules.             *)
(*                                                                         *)
(* Regulatory interpreter agent (src/agents/regulatory_interpreter_agent   *)
(* .py): the pattern library, the pipeline of interpret_regulation, the    *)
(* confidence score, the interpretation cache and                          *)
(* analyze_regulatory_change.  A str is a TLA+ string and the regular      *)
(* expressions are matched character by character.  The coroutines of the  *)
(* agent never suspend (they await nothing that yields), so one call is    *)
(* one step.  A local that a method reads several times is the argument    *)
(* of an operator that holds the rest of the method.  What a call computes *)
(* from its arguments alone is looked up in tables (Steps1To4Of,           *)
(* InterpretationOf, CacheKeyOf) over the texts, regulators, contexts and  *)
(* times of the specifications, which are evaluated once.                  *)
(***************************************************************************)
EXTENDS Integers, Sequences, FiniteSets, TLC

VARIABLES
    rules,      \* RuleEngine.rules: dict regulator -> list of Rule, with key order
    now,        \* the wall clock read by datetime.now(), in days
    pc,         \* "idle", or "apply_rules" while a call is inside its for loop
    data,       \* the mapping the caller passed to apply_rules
    regulator,  \* the regulator  the caller passed to apply_rules
    idx,        \* position of the for loop of apply_rules in the rule list
    results,    \* the local dict "results" of apply_rules
    visits,     \* history: what the loop did at each position so far
    ret,        \* outcome of the last finished call: what it returned or raised
    interpretations_cache,
                \* RegulatoryInterpreterAgent.interpretations_cache: dict key -> interpretation
    loading     \* the load_rules call of the second thread: its argument, the
                \* position of its for loop, the Rule it built and has yet to
                \* append, the store when it began (history), what it raised
                \* and whether it is over; None when there was no such call

vars == <<rules, now, pc, data, regulator, idx, results, visits, ret, interpretations_cache,
          loading>>

(***************************** bounds ***************************************)
MaxRules == 3
MaxTime == 2
MaxCached == 2

(************************* Python values ************************************)
NoneV == [t |-> "none", v |-> 0, d |-> 1, s |-> ""]
IntV(n) == [t |-> "int", v |-> n, d |-> 1, s |-> ""]
StrV(text) == [t |-> "str", v |-> 0, d |-> 1, s |-> text]

Abs(n) == IF n < 0 THEN -n ELSE n

RECURSIVE Gcd(_, _)
Gcd(a, b) == IF b = 0 THEN a ELSE Gcd(b, a % b)

\* the float n/d, in lowest terms with a positive denominator (d # 0)
FloatV(n, d) ==
    LET g == Gcd(Abs(n), Abs(d))
        sgn == IF d < 0 THEN -1 ELSE 1
    IN  [t |-> "float", v |-> sgn * (n \div g), d |-> sgn * (d \div g), s |-> ""]

IsNumber(x) == x.t \in {"int", "float"}

Raise(type, text) == [raise |-> type, message |-> text]
IsRaise(x) == "raise" \in DOMAIN x

\* dict.get(key, default)
DictGet(dict, key, default) == IF key \in DOMAIN dict THEN dict[key] ELSE default

\* dict with dict[key] = value set
DictSet(dict, key, value) ==
    [k \in DOMAIN dict \cup {key} |-> IF k = key THEN value ELSE dict[k]]

\* part in text, for two str
StrIn(part, text) ==
    \E i \in 1..(Len(text) - Len(part) + 1) : SubSeq(text, i, i + Len(part) - 1) = part

RECURSIVE StrRepeat(_, _)
StrRepeat(text, n) == IF n <= 0 THEN "" ELSE text \o StrRepeat(text, n - 1)

BoolV(b) == [t |-> "bool", v |-> IF b THEN 1 ELSE 0, d |-> 1, s |-> ""]
IsTrue(x) == x.t = "bool" /\ x.v = 1

\* x < 0
PyLtZero(x) ==
    IF IsNumber(x) THEN BoolV(x.v < 0)
    ELSE Raise("TypeError", "'<' not supported between instances of '" \o x.t \o "' and 'int'")

\* x != 0
PyNeZero(x) == IF IsNumber(x) THEN x.v # 0 ELSE TRUE

\* x * y
PyMul(x, y) ==
    IF x.t = "int" /\ y.t = "int" THEN IntV(x.v * y.v)
    ELSE IF IsNumber(x) /\ IsNumber(y) THEN FloatV(x.v * y.v, x.d * y.d)
    ELSE IF x.t = "str" /\ y.t = "int" THEN StrV(StrRepeat(x.s, y.v))
    ELSE IF x.t = "int" /\ y.t = "str" THEN StrV(StrRepeat(y.s, x.v))
    ELSE IF "str" \in {x.t, y.t} /\ "float" \in {x.t, y.t}
         THEN Raise("TypeError", "can't multiply sequence by non-int of type 'float'")
    ELSE Raise("TypeError", "unsupported operand type(s) for *: '" \o x.t \o "' and '" \o y.t \o "'")

\* x / y (true division: the result is a float)
PyTrueDiv(x, y) ==
    IF IsNumber(x) /\ IsNumber(y)
    THEN IF y.v = 0 THEN Raise("ZeroDivisionError", "division by zero")
         ELSE FloatV(x.v * y.d, x.d * y.v)
    ELSE Raise("TypeError", "unsupported operand type(s) for /: '" \o x.t \o "' and '" \o y.t \o "'")

\* x - y
PySub(x, y) ==
    IF x.t = "int" /\ y.t = "int" THEN IntV(x.v - y.v)
    ELSE IF IsNumber(x) /\ IsNumber(y) THEN FloatV(x.v * y.d - y.v * x.d, x.d * y.d)
    ELSE Raise("TypeError", "unsupported operand type(s) for -: '" \o x.t \o "' and '" \o y.t \o "'")

(************************* rules and the store ******************************)
\* class RuleType(Enum): the members, by value
VALIDATION == [name |-> "VALIDATION", value |-> "validation"]
CALCULATION == [name |-> "CALCULATION", value |-> "calculation"]
TRANSFORMATION == [name |-> "TRANSFORMATION", value |-> "transformation"]
CONDITIONAL == [name |-> "CONDITIONAL", value |-> "conditional"]
RuleTypeMembers == {VALIDATION, CALCULATION, TRANSFORMATION, CONDITIONAL}

\* a variant that makes up a member for a value the enum does not have
RuleType_lenient(value) ==
    IF \E m \in RuleTypeMembers : m.value = value
    THEN CHOOSE m \in RuleTypeMembers : m.value = value
    ELSE [name |-> "UNKNOWN", value |-> value]

\* RuleType(value): the enum member with that value, or ValueError
RuleType(value) ==
    IF \E m \in RuleTypeMembers : m.value = value
    THEN CHOOSE m \in RuleTypeMembers : m.value = value
    ELSE Raise("ValueError", "'" \o value \o "' is not a valid RuleType")

\* datetime.fromisoformat(text): the datetime the text names, or ValueError.
\* A datetime is [day |-> n], days counted from 2024-01-01 (naive datetimes,
\* whole days); the clock "now" counts the same days.
IsoDays ==
    "2024-01-01" :> 0 @@ "2024-01-02" :> 1 @@ "2024-01-03" :> 2 @@
    "2024-01-04" :> 3 @@ "2024-01-05" :> 4 @@ "2099-12-31" :> 27758

fromisoformat(text) ==
    IF text \in DOMAIN IsoDays THEN [day |-> IsoDays[text]]
    ELSE Raise("ValueError", "Invalid isoformat string: '" \o text \o "'")

\* Rule(...) built from one record of the rules file (lines 45-54): the Rule,
\* or the first exception its field expressions raise, in evaluation order.
MakeRule(rule_data) ==
    LET missing(k) == k \notin DOMAIN rule_data
        KeyError(k) == Raise("KeyError", "'" \o k \o "'")
    IN  IF missing("rule_id") THEN KeyError("rule_id")
        ELSE IF missing("regulator") THEN KeyError("regulator")
        ELSE IF missing("rule_type") THEN KeyError("rule_type")
        ELSE IF IsRaise(RuleType(rule_data.rule_type)) THEN RuleType(rule_data.rule_type)
        ELSE IF missing("description") THEN KeyError("description")
        ELSE IF missing("expression") THEN KeyError("expression")
        ELSE IF missing("version") THEN KeyError("version")
        ELSE IF missing("effective_date") THEN KeyError("effective_date")
        ELSE IF IsRaise(fromisoformat(rule_data.effective_date))
             THEN fromisoformat(rule_data.effective_date)
        ELSE [rule_id |-> rule_data.rule_id,
              regulator |-> rule_data.regulator,
              rule_type |-> RuleType(rule_data.rule_type),
              description |-> rule_data.description,
              expression |-> rule_data.expression,
              parameters |-> DictGet(rule_data, "parameters", <<>>),
              version |-> rule_data.version,
              effective_date |-> fromisoformat(rule_data.effective_date)]

\* The store is a dict: "keys" is its insertion order, "of" its mapping.
EmptyStore == [keys |-> <<>>, of |-> <<>>]
HasKey(store, r) == r \in DOMAIN store.of

\* lines 56-57: create the regulator's list when missing
WithList(store, r) ==
    IF HasKey(store, r) THEN store
    ELSE [keys |-> Append(store.keys, r), of |-> DictSet(store.of, r, <<>>)]

\* AppendRule, were the Rule put at the head of the list
AppendRule_front(store, rule) ==
    LET r == rule.regulator
        old == IF HasKey(store, r) THEN store.of[r] ELSE <<>>
    IN  [keys |-> IF HasKey(store, r) THEN store.keys ELSE Append(store.keys, r),
         of |-> DictSet(store.of, r, <<rule>> \o old)]

\* lines 56-58: create the regulator's list when missing, then append
AppendRule(store, rule) ==
    LET r == rule.regulator
        old == IF HasKey(store, r) THEN store.of[r] ELSE <<>>
    IN  [keys |-> IF HasKey(store, r) THEN store.keys ELSE Append(store.keys, r),
         of |-> DictSet(store.of, r, Append(old, rule))]

\* the for loop of load_rules from record i on: the store when the loop ends,
\* and the exception that ended it early (NoneV when it ran to the end)
RECURSIVE LoadFrom(_, _, _)
LoadFrom(store, rules_data, i) ==
    IF i > Len(rules_data) THEN [store |-> store, raised |-> NoneV]
    ELSE LET rule == MakeRule(rules_data[i])
         IN  IF IsRaise(rule) THEN [store |-> store, raised |-> rule]
             ELSE LoadFrom(AppendRule(store, rule), rules_data, i + 1)

RuleIds(rule_list) == [i \in 1..Len(rule_list) |-> rule_list[i].rule_id]

\* load_rules (lines 39-58) on the parsed content of the rules file
load_rules(store, rules_data) == LoadFrom(store, rules_data, 1)

(***************************** evaluators ***********************************)
\* _apply_validation_rule (lines 111-137)
_apply_validation_rule(rule, d) ==
    LET p == rule.parameters
        passed == [status |-> "passed", rule_id |-> rule.rule_id]
    IN  IF "field" \in DOMAIN p /\ "condition" \in DOMAIN p
        THEN LET field_value == DictGet(d, p.field, NoneV)
                 condition == p.condition
             IN  IF condition = "required" /\ field_value = NoneV
                 THEN [status |-> "failed",
                       message |-> StrV(p.field \o " is required"),
                       rule_id |-> rule.rule_id]
                 ELSE IF condition = "positive" /\ field_value # NoneV
                 THEN LET lt == PyLtZero(field_value)
                      IN  IF IsRaise(lt) THEN lt
                          ELSE IF IsTrue(lt)
                          THEN [status |-> "failed",
                                message |-> StrV(p.field \o " must be positive"),
                                rule_id |-> rule.rule_id]
                          ELSE passed
                 ELSE passed
        ELSE passed

\* a variant without the guard on a zero equity
debt_to_equity_ratio_noguard(d, params) ==
    PyTrueDiv(DictGet(d, "total_debt", IntV(0)), DictGet(d, "total_equity", IntV(1)))

\* debt_to_equity_ratio (lines 185-188)
debt_to_equity_ratio(d, params) ==
    LET debt == DictGet(d, "total_debt", IntV(0))
        equity == DictGet(d, "total_equity", IntV(1))
    IN  IF PyNeZero(equity) THEN PyTrueDiv(debt, equity) ELSE IntV(0)

\* working_capital (lines 190-193)
working_capital(d, params) ==
    LET current_assets == DictGet(d, "current_assets", IntV(0))
        current_liabilities == DictGet(d, "current_liabilities", IntV(0))
    IN  PySub(current_assets, current_liabilities)

\* the keys of self.rule_functions after _register_standard_functions
rule_functions == {"debt_to_equity_ratio", "working_capital"}

\* self.rule_functions[name](data, params)
CallRuleFunction(name, d, params) ==
    IF name = "debt_to_equity_ratio" THEN debt_to_equity_ratio(d, params)
    ELSE working_capital(d, params)

\* _apply_calculation_rule (lines 139-154)
_apply_calculation_rule(rule, d) ==
    IF rule.expression \in rule_functions
    THEN LET output == CallRuleFunction(rule.expression, d, rule.parameters)
         IN  IF IsRaise(output) THEN output
             ELSE [status |-> "success", output |-> output, rule_id |-> rule.rule_id]
    ELSE [status |-> "error",
          message |-> StrV("Unknown calculation: " \o rule.expression),
          rule_id |-> rule.rule_id]

\* the loop of lines 163-166 from field i on: the transformed copy, or the
\* exception a multiplication raises
RECURSIVE StandardizeFrom(_, _, _, _)
StandardizeFrom(transformed_data, fields, rate, i) ==
    IF i > Len(fields) THEN transformed_data
    ELSE IF fields[i] \in DOMAIN transformed_data
    THEN LET product == PyMul(transformed_data[fields[i]], rate)
         IN  IF IsRaise(product) THEN product
             ELSE StandardizeFrom(DictSet(transformed_data, fields[i], product), fields, rate, i + 1)
    ELSE StandardizeFrom(transformed_data, fields, rate, i + 1)

\* a variant that never finds the rate and always takes the default
_apply_transformation_rule_norate(rule, d) ==
    LET transformed_data ==
            IF rule.expression = "standardize_currency"
            THEN StandardizeFrom(d, DictGet(rule.parameters, "fields", <<>>), FloatV(1, 1), 1)
            ELSE d
    IN  IF IsRaise(transformed_data) THEN transformed_data
        ELSE [status |-> "success", transformed_data |-> transformed_data,
              rule_id |-> rule.rule_id]

\* _apply_transformation_rule (lines 156-172); it works on a copy of d
_apply_transformation_rule(rule, d) ==
    LET transformed_data ==
            IF rule.expression = "standardize_currency"
            THEN StandardizeFrom(d, DictGet(rule.parameters, "fields", <<>>),
                                 DictGet(rule.parameters, "rate", FloatV(1, 1)), 1)
            ELSE d
    IN  IF IsRaise(transformed_data) THEN transformed_data
        ELSE [status |-> "success", transformed_data |-> transformed_data,
              rule_id |-> rule.rule_id]

\* _apply_conditional_rule, were the condition evaluated and found not to hold
_apply_conditional_rule_skipped(rule, d) == [status |-> "skipped", rule_id |-> rule.rule_id]

\* _apply_conditional_rule (lines 174-180)
_apply_conditional_rule(rule, d) == [status |-> "success", rule_id |-> rule.rule_id]

\* the dispatch inside the try of _apply_single_rule (lines 96-103)
Dispatch(rule, d) ==
    IF rule.rule_type = VALIDATION THEN _apply_validation_rule(rule, d)
    ELSE IF rule.rule_type = CALCULATION THEN _apply_calculation_rule(rule, d)
    ELSE IF rule.rule_type = TRANSFORMATION THEN _apply_transformation_rule(rule, d)
    ELSE _apply_conditional_rule(rule, d)

\* a variant without the try/except
_apply_single_rule_notry(rule, d) == Dispatch(rule, d)

\* the loop of lines 163-166 from field i on, were it to write into the
\* mapping it was handed: the mapping as the loop leaves it, raise or not
RECURSIVE StandardizeInPlace(_, _, _, _)
StandardizeInPlace(handed, fields, rate, i) ==
    IF i > Len(fields) THEN handed
    ELSE IF fields[i] \in DOMAIN handed
    THEN LET product == PyMul(handed[fields[i]], rate)
         IN  IF IsRaise(product) THEN handed
             ELSE StandardizeInPlace(DictSet(handed, fields[i], product), fields, rate, i + 1)
    ELSE StandardizeInPlace(handed, fields, rate, i + 1)

\* a variant whose transformation works on the mapping itself, not on a copy:
\* what a rule wrote before it raised stays
_apply_single_rule_inplace(rule, d) ==
    LET result == Dispatch(rule, d)
    IN  IF IsRaise(result)
        THEN IF rule.rule_type = TRANSFORMATION /\ rule.expression = "standardize_currency"
             THEN [status |-> "error",
                   message |-> StrV("Rule application failed: " \o result.message),
                   rule_id |-> rule.rule_id,
                   transformed_data |->
                       StandardizeInPlace(d, DictGet(rule.parameters, "fields", <<>>),
                                          DictGet(rule.parameters, "rate", FloatV(1, 1)), 1)]
             ELSE [status |-> "error",
                   message |-> StrV("Rule application failed: " \o result.message),
                   rule_id |-> rule.rule_id]
        ELSE result

\* _apply_single_rule (lines 93-109): except Exception turns a raise into a result
_apply_single_rule(rule, d) ==
    LET result == Dispatch(rule, d)
    IN  IF IsRaise(result)
        THEN [status |-> "error",
              message |-> StrV("Rule application failed: " \o result.message),
              rule_id |-> rule.rule_id]
        ELSE result

(***************************** apply_rules **********************************)
\* a variant that creates the regulator's list when it is missing
ApplyRulesEnter_setdefault(store, d, r) ==
    [raised |-> NoneV,
     store |-> IF HasKey(store, r) THEN store
               ELSE [keys |-> Append(store.keys, r), of |-> DictSet(store.of, r, <<>>)],
     results |-> [data |-> d, validation_results |-> <<>>, calculations |-> <<>>,
                  transformations |-> <<>>, rule_applications |-> <<>>]]

\* a variant that puts the regulator's list in reverse order, in place
ApplyRulesEnter_reversed(store, d, r) ==
    IF ~HasKey(store, r)
    THEN [raised |-> Raise("ValueError", "No rules found for regulator: " \o r),
          store |-> store, results |-> NoneV]
    ELSE [raised |-> NoneV,
          store |-> [store EXCEPT !.of[r] =
                        [i \in 1..Len(store.of[r]) |-> store.of[r][Len(store.of[r]) + 1 - i]]],
          results |-> [data |-> d, validation_results |-> <<>>, calculations |-> <<>>,
                       transformations |-> <<>>, rule_applications |-> <<>>]]

\* lines 62-71: the raise for a regulator without rules, or the fresh results
\* dict, whose "data" is a copy of the caller's mapping
ApplyRulesEnter(store, d, r) ==
    IF ~HasKey(store, r)
    THEN [raised |-> Raise("ValueError", "No rules found for regulator: " \o r),
          store |-> store, results |-> NoneV]
    ELSE [raised |-> NoneV,
          store |-> store,
          results |-> [data |-> d, validation_results |-> <<>>, calculations |-> <<>>,
                       transformations |-> <<>>, rule_applications |-> <<>>]]

\* a variant that compares with < instead of <=
IsEffective_strict(rule, clock) == rule.effective_date.day < clock

\* line 74
IsEffective(rule, clock) == rule.effective_date.day <= clock

\* a variant that never replaces results["data"]: every evaluator gets the
\* data the call started with
ApplyEffective_nocarry(res, rule) ==
    LET result == _apply_single_rule(rule, res.data)
        entry == [rule_id |-> rule.rule_id,
                  status |-> result.status,
                  message |-> DictGet(result, "message", NoneV),
                  output |-> DictGet(result, "output", NoneV)]
        logged == [res EXCEPT !.rule_applications = Append(@, entry)]
    IN  IF IsRaise(result) THEN result
        ELSE IF rule.rule_type = CALCULATION
        THEN [logged EXCEPT !.calculations =
                  DictSet(@, rule.rule_id, DictGet(result, "output", NoneV))]
        ELSE IF rule.rule_type = VALIDATION
        THEN [logged EXCEPT !.validation_results = Append(@, result)]
        ELSE logged

\* a variant that keeps the output of a calculation only when there is one
ApplyEffective_outputsOnly(res, rule) ==
    LET result == _apply_single_rule(rule, res.data)
        entry == [rule_id |-> rule.rule_id,
                  status |-> result.status,
                  message |-> DictGet(result, "message", NoneV),
                  output |-> DictGet(result, "output", NoneV)]
        logged == [res EXCEPT !.rule_applications = Append(@, entry)]
    IN  IF IsRaise(result) THEN result
        ELSE IF rule.rule_type = TRANSFORMATION
        THEN [logged EXCEPT !.data = DictGet(result, "transformed_data", res.data)]
        ELSE IF rule.rule_type = CALCULATION
        THEN IF "output" \in DOMAIN result
             THEN [logged EXCEPT !.calculations = DictSet(@, rule.rule_id, result.output)]
             ELSE logged
        ELSE IF rule.rule_type = VALIDATION
        THEN [logged EXCEPT !.validation_results = Append(@, result)]
        ELSE logged

\* lines 75-89: the body of the for loop for an effective rule: the updated
\* results, or the exception that escapes _apply_single_rule
ApplyEffective(res, rule) ==
    LET result == _apply_single_rule(rule, res.data)
        entry == [rule_id |-> rule.rule_id,
                  status |-> result.status,
                  message |-> DictGet(result, "message", NoneV),
                  output |-> DictGet(result, "output", NoneV)]
        logged == [res EXCEPT !.rule_applications = Append(@, entry)]
    IN  IF IsRaise(result) THEN result
        ELSE IF rule.rule_type = TRANSFORMATION
        THEN [logged EXCEPT !.data = DictGet(result, "transformed_data", res.data)]
        ELSE IF rule.rule_type = CALCULATION
        THEN [logged EXCEPT !.calculations =
                  DictSet(@, rule.rule_id, DictGet(result, "output", NoneV))]
        ELSE IF rule.rule_type = VALIDATION
        THEN [logged EXCEPT !.validation_results = Append(@, result)]
        ELSE logged

\* a variant that keeps one audit entry per rule_id
LoopBody_onePerId(res, rule, clock) ==
    IF IsEffective(rule, clock)
    THEN LET out == ApplyEffective(res, rule)
         IN  IF ~IsRaise(out) /\ \E k \in 1..Len(res.rule_applications) :
                                    res.rule_applications[k].rule_id = rule.rule_id
             THEN [out EXCEPT !.rule_applications = res.rule_applications]
             ELSE out
    ELSE res

\* lines 73-89: one iteration of the for loop
LoopBody(res, rule, clock) == IF IsEffective(rule, clock) THEN ApplyEffective(res, rule) ELSE res

\* validate_rule_consistency (lines 198-212)
RECURSIVE IssuesFrom(_, _)
IssuesFrom(store, k) ==
    IF k > Len(store.keys) THEN <<>>
    ELSE LET rule_ids == RuleIds(store.of[store.keys[k]])
             ids == {rule_ids[i] : i \in 1..Len(rule_ids)}
             rest == IssuesFrom(store, k + 1)
         IN  IF Len(rule_ids) # Cardinality(ids)
             THEN <<[type |-> "duplicate_rule_id", regulator |-> store.keys[k],
                     message |-> "Duplicate rule IDs found"]>> \o rest
             ELSE rest

\* a variant whose rule_ids list is taken over the whole store, not over the
\* regulator's own list
RECURSIVE TotalLen(_, _)
TotalLen(store, k) ==
    IF k > Len(store.keys) THEN 0 ELSE Len(store.of[store.keys[k]]) + TotalLen(store, k + 1)

RECURSIVE IssuesAcrossFrom(_, _)
IssuesAcrossFrom(store, k) ==
    IF k > Len(store.keys) THEN <<>>
    ELSE LET ids == UNION {{store.of[r][i].rule_id : i \in 1..Len(store.of[r])} :
                              r \in DOMAIN store.of}
             rest == IssuesAcrossFrom(store, k + 1)
         IN  IF TotalLen(store, 1) # Cardinality(ids)
             THEN <<[type |-> "duplicate_rule_id", regulator |-> store.keys[k],
                     message |-> "Duplicate rule IDs found"]>> \o rest
             ELSE rest

validate_rule_consistency_across(store) == IssuesAcrossFrom(store, 1)

validate_rule_consistency(store) == IssuesFrom(store, 1)

(***************************** Python str ***********************************)
\* A str is a TLA+ string; its characters are its substrings of length one.
\* The texts are ASCII.
CharAt(text, i) == SubSeq(text, i, i)

ascii_lowercase == "abcdefghijklmnopqrstuvwxyz"
ascii_uppercase == "ABCDEFGHIJKLMNOPQRSTUVWXYZ"
digits == "0123456789"

Chars(text) == {CharAt(text, i) : i \in 1..Len(text)}

\* c.isspace(), and \s of re
IsSpace(c) == c \in {" ", "\t", "\n", "\r", "\f"}

\* \w of re
WordChars == Chars(ascii_lowercase) \cup Chars(ascii_uppercase) \cup Chars(digits) \cup {"_"}

IsWordChar(c) == c \in WordChars

\* c.lower() for the characters that have another lower case
LowerOf == [c \in Chars(ascii_uppercase) |->
               CharAt(ascii_lowercase, CHOOSE i \in 1..26 : CharAt(ascii_uppercase, i) = c)]

LowerChar(c) == IF c \in DOMAIN LowerOf THEN LowerOf[c] ELSE c

\* text.lower()
RECURSIVE LowerFrom(_, _)
LowerFrom(text, i) ==
    IF i > Len(text) THEN "" ELSE LowerChar(CharAt(text, i)) \o LowerFrom(text, i + 1)

lower(text) == LowerFrom(text, 1)

\* text.startswith(prefix, i - 1)
StartsWithAt(text, prefix, i) ==
    i + Len(prefix) - 1 <= Len(text) /\ SubSeq(text, i, i + Len(prefix) - 1) = prefix

\* text.replace(old, new) from position i on: every occurrence of old, left to
\* right, none overlapping
RECURSIVE ReplaceFrom(_, _, _, _)
ReplaceFrom(text, old, new, i) ==
    IF i > Len(text) THEN ""
    ELSE IF StartsWithAt(text, old, i) THEN new \o ReplaceFrom(text, old, new, i + Len(old))
    ELSE CharAt(text, i) \o ReplaceFrom(text, old, new, i + 1)

replace(text, old, new) == ReplaceFrom(text, old, new, 1)

\* text.strip()
strip(text) ==
    LET inside == {i \in 1..Len(text) : ~IsSpace(CharAt(text, i))}
    IN  IF inside = {} THEN ""
        ELSE SubSeq(text, CHOOSE i \in inside : \A j \in inside : i <= j,
                          CHOOSE i \in inside : \A j \in inside : j <= i)

\* sep.join(parts) from part i on
RECURSIVE JoinFrom(_, _, _)
JoinFrom(sep, parts, i) ==
    IF i > Len(parts) THEN ""
    ELSE IF i = Len(parts) THEN parts[i]
    ELSE parts[i] \o sep \o JoinFrom(sep, parts, i + 1)

join(sep, parts) == JoinFrom(sep, parts, 1)

\* the number of characters from position i on that are all of one class
RECURSIVE RunLength(_, _, _)
RunLength(text, i, cls) ==
    LET c == CharAt(text, i)
        inClass == IF cls = "s" THEN IsSpace(c)
                   ELSE IF cls = "w" THEN IsWordChar(c)
                   ELSE c # "\n"
    IN  IF i > Len(text) \/ ~inClass THEN 0 ELSE 1 + RunLength(text, i + 1, cls)

(******************************* module re **********************************)
\* A pattern is the sequence of its items: a literal, an optional literal
\* (x?), or a greedy repetition of a character class (\s, \w or .) with a
\* minimum of 0 or 1, which may be a named group.
Lit(t) == [kind |-> "lit", text |-> t, cls |-> "", min |-> 0, group |-> ""]
Opt(t) == [kind |-> "opt", text |-> t, cls |-> "", min |-> 0, group |-> ""]
Rep(cls, min, group) == [kind |-> "rep", text |-> "", cls |-> cls, min |-> min, group |-> group]

Spaces == Rep("s", 1, "")
AnySpaces == Rep("s", 0, "")
Word(group) == Rep("w", 1, group)
Rest(group) == Rep(".", 1, group)

NoMatch == [ok |-> FALSE, start |-> 0, end |-> 0, groups |-> <<>>]

\* the pattern under re.IGNORECASE
IgnoreCase(pattern) == [k \in 1..Len(pattern) |-> [pattern[k] EXCEPT !.text = lower(@)]]

\* items k.. of the pattern matched at position i of the text, as the
\* backtracking matcher of re does it: a repetition takes the longest run that
\* lets the rest of the pattern match.  "folded" is the text as the literals
\* are compared with it: the text, or under re.IGNORECASE its lower case.
\* "end" is the position after the match.
RECURSIVE MatchFrom(_, _, _, _, _)

\* of the lengths up to "run" that item k may take, those after which the
\* rest of the pattern matches
GoodRuns(pattern, k, text, folded, i, run) ==
    IF k = Len(pattern) THEN {run} \cap (pattern[k].min..run)
    ELSE {n \in pattern[k].min..run : MatchFrom(pattern, k + 1, text, folded, i + n).ok}

\* the match in which item k takes the longest of the lengths "good"
TakeLongest(pattern, k, text, folded, i, good) ==
    IF good = {} THEN NoMatch
    ELSE LET n == CHOOSE m \in good : \A o \in good : o <= m
             rest == MatchFrom(pattern, k + 1, text, folded, i + n)
         IN  IF pattern[k].group = "" THEN rest
             ELSE [rest EXCEPT !.groups =
                      DictSet(@, pattern[k].group, SubSeq(text, i, i + n - 1))]

MatchFrom(pattern, k, text, folded, i) ==
    IF k > Len(pattern) THEN [ok |-> TRUE, start |-> i, end |-> i, groups |-> <<>>]
    ELSE LET item == pattern[k]
             after(n) == MatchFrom(pattern, k + 1, text, folded, i + n)
             fits == /\ i + Len(item.text) - 1 <= Len(folded)
                     /\ SubSeq(folded, i, i + Len(item.text) - 1) = item.text
         IN  IF item.kind = "lit"
             THEN IF fits THEN after(Len(item.text)) ELSE NoMatch
             ELSE IF item.kind = "opt"
             THEN IF fits /\ after(Len(item.text)).ok THEN after(Len(item.text)) ELSE after(0)
             ELSE TakeLongest(pattern, k, text, folded, i,
                      GoodRuns(pattern, k, text, folded, i, RunLength(text, i, item.cls)))

\* the leftmost match that starts at position i or later
RECURSIVE SearchFrom(_, _, _, _)

\* m, the match at position i, if it is one, and else the leftmost later one
MatchOrLater(m, pattern, text, folded, i) ==
    IF m.ok THEN [m EXCEPT !.start = i] ELSE SearchFrom(pattern, text, folded, i + 1)

SearchFrom(pattern, text, folded, i) ==
    IF i > Len(text) + 1 THEN NoMatch
    ELSE MatchOrLater(MatchFrom(pattern, 1, text, folded, i), pattern, text, folded, i)

\* re.search(pattern, text) is not None
re_search(pattern, text) == SearchFrom(pattern, text, text, 1).ok

\* the matches from position i on, left to right, none overlapping (no pattern
\* of the library matches the empty string)
RECURSIVE FindIterFrom(_, _, _, _)

\* m, the leftmost match, and the matches after it
MatchAndLater(m, pattern, text, folded) ==
    IF ~m.ok THEN <<>> ELSE <<m>> \o FindIterFrom(pattern, text, folded, m.end)

FindIterFrom(pattern, text, folded, i) ==
    MatchAndLater(SearchFrom(pattern, text, folded, i), pattern, text, folded)

\* list(re.finditer(pattern, text, re.IGNORECASE))
re_finditer(pattern, text) == FindIterFrom(IgnoreCase(pattern), text, lower(text), 1)

\* re.sub(r'\s+', ' ', text) from position i on
RECURSIVE CollapseFrom(_, _)
CollapseFrom(text, i) ==
    IF i > Len(text) THEN ""
    ELSE IF IsSpace(CharAt(text, i))
    THEN " " \o CollapseFrom(text, i + RunLength(text, i, "s"))
    ELSE CharAt(text, i) \o CollapseFrom(text, i + 1)

(*********************** the interpreter's tables ***************************)
\* class InterpretationType(Enum); its CALCULATION member is CALCULATION_TYPE
\* here, CALCULATION being the member of RuleType
REQUIREMENT == [enum |-> "InterpretationType", name |-> "REQUIREMENT", value |-> "requirement"]
PROHIBITION == [enum |-> "InterpretationType", name |-> "PROHIBITION", value |-> "prohibition"]
EXEMPTION == [enum |-> "InterpretationType", name |-> "EXEMPTION", value |-> "exemption"]
CALCULATION_TYPE == [enum |-> "InterpretationType", name |-> "CALCULATION", value |-> "calculation"]
DEFINITION == [enum |-> "InterpretationType", name |-> "DEFINITION", value |-> "definition"]
PROCESS == [enum |-> "InterpretationType", name |-> "PROCESS", value |-> "process"]

\* _load_regulatory_patterns (lines 56-95); the "deadlines" patterns are left
\* out, no method reads them
regulatory_patterns ==
    [requirements |->
        <<<<Lit("shall"), Spaces, Word("action")>>,
          <<Lit("must"), Spaces, Word("action")>>,
          <<Lit("required"), Spaces, Lit("to"), Spaces, Word("action")>>,
          <<Lit("obligated"), Spaces, Lit("to"), Spaces, Word("action")>>>>,
     prohibitions |->
        <<<<Lit("shall"), Spaces, Lit("not"), Spaces, Word("action")>>,
          <<Lit("must"), Spaces, Lit("not"), Spaces, Word("action")>>,
          <<Lit("prohibited"), Spaces, Lit("from"), Spaces, Word("action")>>,
          <<Lit("may"), Spaces, Lit("not"), Spaces, Word("action")>>>>,
     exemptions |->
        <<<<Lit("except"), Spaces, Rest("condition")>>,
          <<Lit("unless"), Spaces, Rest("condition")>>,
          <<Lit("exempted"), Spaces, Lit("if"), Spaces, Rest("condition")>>,
          <<Lit("not"), Spaces, Lit("applicable"), Spaces, Lit("to"), Spaces, Rest("entity")>>>>,
     calculations |->
        <<<<Lit("calculated"), Spaces, Lit("as"), Spaces, Rest("formula")>>,
          <<Lit("determined"), Spaces, Lit("by"), Spaces, Rest("method")>>,
          <<Lit("equal"), Opt("s"), Spaces, Rest("formula")>>,
          <<Word("metric"), AnySpaces, Lit("="), AnySpaces, Rest("formula")>>>>,
     data_fields |->
        <<<<Lit("report"), Spaces, Word("field")>>,
          <<Lit("disclose"), Spaces, Word("field")>>,
          <<Lit("provide"), Spaces, Word("field")>>,
          <<Lit("submit"), Spaces, Word("field")>>>>]

\* _load_domain_knowledge (lines 97-122); a dict of calculations is the
\* sequence of its items, and the threshold, which nothing reads, is written
\* with its decimal digits
domain_knowledge ==
    [sec |-> [forms |-> <<"10-K", "10-Q", "8-K", "DEF 14A">>,
              concepts |-> <<"material", "non-GAAP", "beneficial ownership">>,
              calculations |-> <<<<"eps", "net_income / weighted_average_shares">>,
                                 <<"current_ratio", "current_assets / current_liabilities">>>>],
     fca |-> [forms |-> <<"GABRIEL", "REP-CRIM", "FSA001">>,
              concepts |-> <<"conduct risk", "operational resilience">>,
              thresholds |-> [large_firm |-> [assets |-> "15000000000"]]],
     esma |-> [forms |-> <<"EMIR", "MiFID II", "AIFMD">>,
               concepts |-> <<"systematic internaliser", "dark pool">>,
               calculations |-> <<<<"leverage", "exposure / nav">>>>]]

(****************************** the interpreter *****************************)
\* _preprocess_text (lines 171-186).  The substitution of line 176 looks for
\* two characters that are not ASCII and leaves an ASCII text as it is.
_preprocess_text(text) ==
    LET collapsed == CollapseFrom(text, 1)
        expanded == replace(replace(replace(replace(collapsed,
                        "Corp.", "Corporation"), "Inc.", "Incorporated"),
                        "Ltd.", "Limited"), "Co.", "Company")
    IN  strip(expanded)

\* any(re.search(pattern, text) for pattern in patterns)
AnySearch(patterns, text) == \E k \in 1..Len(patterns) : re_search(patterns[k], text)

\* a variant that checks for prohibitions before calculations
_identify_interpretation_type_prohibition_first(text) ==
    LET text_lower == lower(text)
    IN  IF AnySearch(regulatory_patterns.prohibitions, text_lower) THEN PROHIBITION
        ELSE IF AnySearch(regulatory_patterns.calculations, text_lower) THEN CALCULATION_TYPE
        ELSE IF AnySearch(regulatory_patterns.exemptions, text_lower) THEN EXEMPTION
        ELSE IF \/ StrIn("procedure", text_lower)
                \/ StrIn("process", text_lower)
                \/ StrIn("steps", text_lower) THEN PROCESS
        ELSE IF StrIn("means", text_lower) \/ StrIn("defined as", text_lower) THEN DEFINITION
        ELSE REQUIREMENT

\* _identify_interpretation_type (lines 188-213)
_identify_interpretation_type(text) ==
    LET text_lower == lower(text)
    IN  IF AnySearch(regulatory_patterns.calculations, text_lower) THEN CALCULATION_TYPE
        ELSE IF AnySearch(regulatory_patterns.prohibitions, text_lower) THEN PROHIBITION
        ELSE IF AnySearch(regulatory_patterns.exemptions, text_lower) THEN EXEMPTION
        ELSE IF \/ StrIn("procedure", text_lower)
                \/ StrIn("process", text_lower)
                \/ StrIn("steps", text_lower) THEN PROCESS
        ELSE IF StrIn("means", text_lower) \/ StrIn("defined as", text_lower) THEN DEFINITION
        ELSE REQUIREMENT

\* the loops of _extract_components over one category, from pattern k on: what
\* the group captured in every match of every pattern that has the group
RECURSIVE CapturesFrom(_, _, _, _)

\* match.group(group) of every match
GroupOf(matches, group) == [i \in 1..Len(matches) |-> matches[i].groups[group]]

CapturesFrom(patterns, k, text, group) ==
    IF k > Len(patterns) THEN <<>>
    ELSE GroupOf(SelectSeq(re_finditer(patterns[k], text),
                           LAMBDA m : group \in DOMAIN m.groups), group)
           \o CapturesFrom(patterns, k + 1, text, group)

\* _extract_components (lines 215-255)
_extract_components(text, interpretation_type, reg) ==
    [actions |-> CapturesFrom(regulatory_patterns.requirements, 1, text, "action"),
     conditions |-> CapturesFrom(regulatory_patterns.exemptions, 1, text, "condition"),
     data_fields |-> CapturesFrom(regulatory_patterns.data_fields, 1, text, "field"),
     deadlines |-> <<>>,
     entities |-> <<>>,
     calculations |-> IF interpretation_type = CALCULATION_TYPE
                      THEN CapturesFrom(regulatory_patterns.calculations, 1, text, "formula")
                      ELSE <<>>]

\* lines 266-268: for form in domain.get("forms", []), from form i on
RECURSIVE FormsFrom(_, _, _, _)
FormsFrom(enhanced, forms, joined, i) ==
    IF i > Len(forms) THEN enhanced
    ELSE FormsFrom(IF StrIn(lower(forms[i]), joined)
                   THEN DictSet(enhanced, "specific_forms", <<forms[i]>>)
                   ELSE enhanced,
                   forms, joined, i + 1)

\* lines 272-275: the two nested loops, from calculation c and item j on
RECURSIVE FormulasFrom(_, _, _, _, _)
FormulasFrom(enhanced, calcs, items, c, j) ==
    IF c > Len(calcs) THEN enhanced
    ELSE IF j > Len(items) THEN FormulasFrom(enhanced, calcs, items, c + 1, 1)
    ELSE FormulasFrom(IF StrIn(items[j][1], lower(calcs[c]))
                      THEN DictSet(enhanced, "calculation_formulas", <<items[j]>>)
                      ELSE enhanced,
                      calcs, items, c, j + 1)

\* a variant that looks for the known names in the data fields as well
_apply_domain_knowledge_fields(components, reg) ==
    IF lower(reg) \notin DOMAIN domain_knowledge THEN components
    ELSE LET domain == domain_knowledge[lower(reg)]
             joined == lower(join(" ", components.actions))
             withForms == IF StrIn("report", joined)
                          THEN FormsFrom(components, DictGet(domain, "forms", <<>>), joined, 1)
                          ELSE components
         IN  IF "calculations" \in DOMAIN domain
             THEN FormulasFrom(withForms, components.calculations \o components.data_fields,
                               domain.calculations, 1, 1)
             ELSE withForms

\* _apply_domain_knowledge (lines 257-277)
_apply_domain_knowledge(components, reg) ==
    IF lower(reg) \notin DOMAIN domain_knowledge THEN components
    ELSE LET domain == domain_knowledge[lower(reg)]
             joined == lower(join(" ", components.actions))
             withForms == IF StrIn("report", joined)
                          THEN FormsFrom(components, DictGet(domain, "forms", <<>>), joined, 1)
                          ELSE components
         IN  IF components.calculations # <<>> /\ "calculations" \in DOMAIN domain
             THEN FormulasFrom(withForms, components.calculations, domain.calculations, 1, 1)
             ELSE withForms

\* _build_interpreted_meaning (lines 326-348)
_build_interpreted_meaning(interpretation_type, components) ==
    IF interpretation_type = REQUIREMENT
    THEN IF components.data_fields # <<>>
         THEN "Must " \o join(", ", components.actions)
                \o " and report " \o join(", ", components.data_fields)
         ELSE "Must " \o join(", ", components.actions)
    ELSE IF interpretation_type = PROHIBITION
    THEN "Prohibited from " \o join(", ", components.actions)
    ELSE IF interpretation_type = CALCULATION_TYPE
    THEN "Calculate values using: " \o join(", ", components.calculations)
    ELSE IF interpretation_type = EXEMPTION
    THEN "Exemption applies if: " \o join("; ", components.conditions)
    ELSE "Interpretation requires manual review"

\* json.dumps of a dict of str to str, given as the sequence of its items
json_dumps(items) ==
    "{" \o join(", ", [i \in 1..Len(items) |->
                          "\"" \o items[i][1] \o "\": \"" \o items[i][2] \o "\""]) \o "}"

\* ord(c), for tab, newline and the printable ASCII characters but the
\* backquote (code 96), which a TLA+ string cannot hold
Printable ==
    " !\"#$%&'()*+,-./0123456789:;<=>?@ABCDEFGHIJKLMNOPQRSTUVWXYZ[\\]^_"

OrdOf ==
    [c \in Chars(Printable) \cup Chars(ascii_lowercase) \cup Chars("{|}~") \cup {"\t", "\n"} |->
        IF c = "\t" THEN 9
        ELSE IF c = "\n" THEN 10
        ELSE IF StrIn(c, Printable)
        THEN 31 + CHOOSE i \in 1..Len(Printable) : CharAt(Printable, i) = c
        ELSE IF StrIn(c, ascii_lowercase)
        THEN 96 + CHOOSE i \in 1..26 : CharAt(ascii_lowercase, i) = c
        ELSE 122 + CHOOSE i \in 1..4 : CharAt("{|}~", i) = c]

ord(c) == OrdOf[c]

\* hash(text).  The hash of a str is a function of its characters and of a key
\* the process draws when it starts; what the agent relies on is that equal
\* texts have equal hashes.  It is modelled by a polynomial hash of HashBits bits.
HashBits == 16

\* the hash of the first n characters of the text
RECURSIVE HashUpTo(_, _)
HashUpTo(text, n) ==
    IF n = 0 THEN 0
    ELSE (HashUpTo(text, n - 1) * 31 + ord(CharAt(text, n))) % (2 ^ HashBits)

hash(text) == HashUpTo(text, Len(text))

\* datetime.isoformat(), to the day
isoformat(dt) == CHOOSE text \in DOMAIN IsoDays : IsoDays[text] = dt.day

\* _generate_interpretation (lines 279-324), with the clock it reads.
\* data_requirements is list(set(...)): a list in the order in which the set
\* iterates, which no method reads (they take its len and its set); it is the
\* set here.
_generate_interpretation(text, interpretation_type, components, reg, context, clock) ==
    [regulation_id |-> reg \o "_" \o ToString(hash(text)),
     section |-> "TBD",
     interpretation_type |-> interpretation_type,
     original_text |-> text,
     interpreted_meaning |-> _build_interpreted_meaning(interpretation_type, components),
     data_requirements |-> {components.data_fields[i] : i \in 1..Len(components.data_fields)},
     calculation_formula |-> IF "calculation_formulas" \in DOMAIN components
                             THEN StrV(json_dumps(components.calculation_formulas))
                             ELSE NoneV,
     conditions |-> components.conditions,
     effective_date |-> [day |-> clock],
     confidence_score |-> FloatV(0, 1),
     metadata |-> [regulator |-> reg,
                   interpretation_timestamp |-> isoformat([day |-> clock]),
                   components |-> components,
                   context |-> IF context = NoneV THEN <<>> ELSE context]]

Min(a, b) == IF a < b THEN a ELSE b
Max(a, b) == IF a < b THEN b ELSE a

ambiguous_terms == <<"may", "could", "might", "generally", "typically">>

\* lines 352-366: the score before it is clamped, counted in twentieths
\* (0.05): 0.5 is 10, 0.1 is 2, 0.2 is 4.  The rounding of binary floating
\* point is not modelled.
Score(interpretation) ==
    LET base == 10
        requirements == IF interpretation.data_requirements # {}
                        THEN 2 * Min(Cardinality(interpretation.data_requirements), 3)
                        ELSE 0
        conditions == IF interpretation.conditions # <<>>
                      THEN 2 * Min(Len(interpretation.conditions), 2)
                      ELSE 0
        formula == IF interpretation.calculation_formula \notin {NoneV, StrV("")}
                   THEN 4 ELSE 0
        text_lower == lower(interpretation.original_text)
        present == {k \in 1..Len(ambiguous_terms) : StrIn(ambiguous_terms[k], text_lower)}
    IN  base + requirements + conditions + formula - Cardinality(present)

\* a variant that returns the score as it is, not clamped
_calculate_confidence_noclamp(interpretation) == FloatV(Score(interpretation), 20)

\* _calculate_confidence (lines 350-368)
_calculate_confidence(interpretation) ==
    FloatV(Min(Max(Score(interpretation), 0), 20), 20)

\* cache_key of line 166
cache_key(regulation_text, reg) == reg \o ":" \o ToString(hash(regulation_text))

\* steps 1 to 4 of interpret_regulation (lines 141-151), which read neither
\* the clock nor the context
Steps3To4(cleaned_text, interpretation_type, reg) ==
    [cleaned_text |-> cleaned_text,
     interpretation_type |-> interpretation_type,
     enhanced_components |->
         _apply_domain_knowledge(
             _extract_components(cleaned_text, interpretation_type, reg), reg)]

Steps2To4(cleaned_text, reg) ==
    Steps3To4(cleaned_text, _identify_interpretation_type(cleaned_text), reg)

Steps1To4(regulation_text, reg) == Steps2To4(_preprocess_text(regulation_text), reg)

\* the regulators of the callers
Regulators == {"SEC", "FCA"}

\* the contexts of the callers: none, and a dict
Contexts == {NoneV, [filing |-> "10-K"]}

\* texts for the agent.  A requirement, a prohibition that says "may" twice,
\* and a calculation with three data fields, two conditions and a known formula
TxReport == "Entities shall report revenue within 30 days."
TxMayNot == "A firm may not trade and may report loss"
TxEps == "r = eps report x disclose y provide z except b unless c"
\* texts with phrases of two categories, of one, and of all five
TxCalcProhib == "eps is calculated as y and shall not z"
TxProhibExempt == "must not sell unless small"
TxExemptProcess == "steps apply unless small"
TxProcessDef == "a process means steps"
TxDef == "capital means equity"
TxProhibDef == "lending means we shall not lend"
TxAll == "x = y shall not z unless w steps means"
\* two calculations with different known formulas, a prohibition with two data
\* fields, four data fields with three conditions, and every ambiguous term
TxX == "x = eps"
TxY == "y = current_ratio"
TxProhib2 == "firms may not report loss or disclose gain"
TxCaps == "report a disclose b provide c submit d except e unless f exempted if g"
TxVague == "might could typically generally mayor"
\* a text that preprocessing changes
TxSpaced == "  Acme  Corp.\tmay\nreport   cash "
\* a requirement whose data field is the name of a known calculation
TxReportEps == "firms shall report eps"

Texts ==
    {TxReport, TxMayNot, TxEps, TxCalcProhib, TxProhibExempt, TxExemptProcess,
     TxProcessDef, TxDef, TxProhibDef, TxAll, TxX, TxY, TxProhib2, TxCaps,
     TxVague, TxSpaced, TxReportEps}

\* Steps1To4 of the texts and regulators above, evaluated once
Steps1To4Of ==
    [regulation_text \in Texts, reg \in Regulators |-> Steps1To4(regulation_text, reg)]

\* step 6 of interpret_regulation (lines 163-164)
WithConfidence(interpretation) ==
    [interpretation EXCEPT !.confidence_score = _calculate_confidence(interpretation)]

\* steps 5 and 6 (lines 153-164), with the clock they read
Steps5To6(steps, reg, context, clock) ==
    WithConfidence(_generate_interpretation(steps.cleaned_text,
        steps.interpretation_type, steps.enhanced_components, reg, context, clock))

\* a variant that counts the keys of the context among the data requirements
interpret_regulation_with_context(regulation_text, reg, context, clock) ==
    WithConfidence([Steps5To6(Steps1To4Of[regulation_text, reg], reg, context, clock)
                       EXCEPT !.data_requirements =
                           @ \cup (IF context = NoneV THEN {} ELSE DOMAIN context)])

\* interpret_regulation (lines 124-169) up to the cache, for a text and a
\* regulator of the table: the interpretation it returns, with the clock it
\* reads
interpret_regulation(regulation_text, reg, context, clock) ==
    Steps5To6(Steps1To4Of[regulation_text, reg], reg, context, clock)

\* interpret_regulation and cache_key of the texts, regulators and contexts
\* above at every time of the clock, evaluated once
InterpretationOf ==
    [regulation_text \in Texts, reg \in Regulators, context \in Contexts, clock \in 0..MaxTime |->
        interpret_regulation(regulation_text, reg, context, clock)]

CacheKeyOf ==
    [regulation_text \in Texts, reg \in Regulators |-> cache_key(regulation_text, reg)]

\* a variant that looks at the data requirements before the prohibition
_assess_change_impact_requirements_first(old, new) ==
    IF Cardinality(new.data_requirements) > Cardinality(old.data_requirements)
    THEN "MEDIUM - Additional reporting requirements"
    ELSE IF new.interpretation_type = PROHIBITION /\ old.interpretation_type # PROHIBITION
    THEN "HIGH - New prohibition introduced"
    ELSE IF new.calculation_formula # old.calculation_formula
    THEN "MEDIUM - Calculation methodology changed"
    ELSE "LOW - Minor changes"

\* _assess_change_impact (lines 389-398)
_assess_change_impact(old, new) ==
    IF new.interpretation_type = PROHIBITION /\ old.interpretation_type # PROHIBITION
    THEN "HIGH - New prohibition introduced"
    ELSE IF Cardinality(new.data_requirements) > Cardinality(old.data_requirements)
    THEN "MEDIUM - Additional reporting requirements"
    ELSE IF new.calculation_formula # old.calculation_formula
    THEN "MEDIUM - Calculation methodology changed"
    ELSE "LOW - Minor changes"

\* a variant that compares the two conditions lists with "is not": they are
\* two objects, whatever they hold
Changes_identity(old_interp, new_interp) ==
    [type_changed |-> old_interp.interpretation_type # new_interp.interpretation_type,
     new_requirements |-> new_interp.data_requirements \ old_interp.data_requirements,
     removed_requirements |-> old_interp.data_requirements \ new_interp.data_requirements,
     calculation_changed |-> old_interp.calculation_formula # new_interp.calculation_formula,
     conditions_changed |-> TRUE,
     impact_assessment |-> _assess_change_impact(old_interp, new_interp)]

\* the dict analyze_regulatory_change returns (lines 378-385); the two lists
\* built from sets are the sets
Changes(old_interp, new_interp) ==
    [type_changed |-> old_interp.interpretation_type # new_interp.interpretation_type,
     new_requirements |-> new_interp.data_requirements \ old_interp.data_requirements,
     removed_requirements |-> old_interp.data_requirements \ new_interp.data_requirements,
     calculation_changed |-> old_interp.calculation_formula # new_interp.calculation_formula,
     conditions_changed |-> old_interp.conditions # new_interp.conditions,
     impact_assessment |-> _assess_change_impact(old_interp, new_interp)]

(****************************** the machine *********************************)
NoCall == [op |-> "__init__", args |-> NoneV, raised |-> NoneV, value |-> NoneV]

Init ==
    /\ rules = EmptyStore
    /\ now = 0
    /\ pc = "idle"
    /\ data = <<>>
    /\ regulator = ""
    /\ idx = 0
    /\ results = NoneV
    /\ visits = <<>>
    /\ ret = NoCall
    /\ interpretations_cache = <<>>
    /\ loading = NoneV

\* the locals of the last apply_rules call are gone once another call is made
Forget ==
    /\ data' = <<>>
    /\ regulator' = ""
    /\ idx' = 0
    /\ results' = NoneV
    /\ visits' = <<>>

WithinBounds(store) == \A r \in DOMAIN store.of : Len(store.of[r]) <= MaxRules

\* a call of load_rules, start to end
LoadRules(rules_data) ==
    /\ pc = "idle"
    /\ LET out == load_rules(rules, rules_data)
       IN  /\ WithinBounds(out.store)
           /\ rules' = out.store
           /\ ret' = [op |-> "load_rules", args |-> rules_data,
                      raised |-> out.raised, value |-> NoneV]
    /\ Forget
    /\ UNCHANGED <<now, pc, interpretations_cache, loading>>

\* a call of apply_rules, up to its raise or to the head of the for loop
ApplyRulesCall(d, r) ==
    /\ pc = "idle"
    /\ LET out == ApplyRulesEnter(rules, d, r)
       IN  /\ rules' = out.store
           /\ data' = d
           /\ regulator' = r
           /\ visits' = <<>>
           /\ IF IsRaise(out.raised)
              THEN /\ ret' = [op |-> "apply_rules", args |-> [data |-> d, regulator |-> r],
                              raised |-> out.raised, value |-> NoneV]
                   /\ idx' = 0
                   /\ results' = NoneV
                   /\ UNCHANGED pc
              ELSE /\ pc' = "apply_rules"
                   /\ idx' = 1
                   /\ results' = out.results
                   /\ ret' = NoCall
    /\ UNCHANGED <<now, interpretations_cache, loading>>

\* one iteration of the for loop of apply_rules; an exception that escapes
\* the body ends the call.  A visit records the rule, the time, the data handed
\* to the evaluator and the length the list had.
ApplyRulesIterate ==
    /\ pc = "apply_rules"
    /\ idx <= Len(rules.of[regulator])
    /\ LET rule == rules.of[regulator][idx]
           out == LoopBody(results, rule, now)
       IN  /\ visits' = Append(visits, [rule |-> rule, at |-> now, handed |-> results.data,
                                         size |-> Len(rules.of[regulator])])
           /\ IF IsRaise(out)
              THEN /\ pc' = "idle"
                   /\ ret' = [op |-> "apply_rules",
                              args |-> [data |-> data, regulator |-> regulator],
                              raised |-> out, value |-> NoneV]
                   /\ results' = NoneV
                   /\ UNCHANGED idx
              ELSE /\ results' = out
                   /\ idx' = idx + 1
                   /\ UNCHANGED <<pc, ret>>
    /\ UNCHANGED <<rules, now, data, regulator, interpretations_cache, loading>>

\* the for loop is exhausted: return results (line 91)
ApplyRulesReturn ==
    /\ pc = "apply_rules"
    /\ idx > Len(rules.of[regulator])
    /\ pc' = "idle"
    /\ ret' = [op |-> "apply_rules", args |-> [data |-> data, regulator |-> regulator],
               raised |-> NoneV, value |-> results]
    /\ results' = NoneV
    /\ UNCHANGED <<rules, now, data, regulator, idx, visits, interpretations_cache, loading>>

\* the second thread calls load_rules: it is at the head of the for loop
LoadRulesBegin(rules_data) ==
    /\ IF loading = NoneV THEN TRUE ELSE loading.done
    /\ WithinBounds(load_rules(rules, rules_data).store)
    /\ loading' = [rules_data |-> rules_data, i |-> 1, rule |-> NoneV, before |-> rules,
                   raised |-> NoneV, done |-> rules_data = <<>>]
    /\ UNCHANGED <<rules, now, pc, data, regulator, idx, results, visits, ret,
                   interpretations_cache>>

\* a variant that takes back what the call appended when a record is rejected
LoadRulesConstruct_rollback ==
    /\ loading # NoneV
    /\ ~loading.done
    /\ loading.rule = NoneV
    /\ LET rule == MakeRule(loading.rules_data[loading.i])
       IN  IF IsRaise(rule)
           THEN /\ loading' = [loading EXCEPT !.raised = rule, !.done = TRUE]
                /\ rules' = loading.before
           ELSE /\ loading' = [loading EXCEPT !.rule = rule]
                /\ rules' = WithList(rules, rule.regulator)
    /\ UNCHANGED <<now, pc, data, regulator, idx, results, visits, ret, interpretations_cache>>

\* lines 45-57 of the second thread: the Rule is built from the record the
\* loop is at and the list of its regulator is created when missing; an
\* exception ends the call
LoadRulesConstruct ==
    /\ loading # NoneV
    /\ ~loading.done
    /\ loading.rule = NoneV
    /\ LET rule == MakeRule(loading.rules_data[loading.i])
       IN  IF IsRaise(rule)
           THEN /\ loading' = [loading EXCEPT !.raised = rule, !.done = TRUE]
                /\ UNCHANGED rules
           ELSE /\ loading' = [loading EXCEPT !.rule = rule]
                /\ rules' = WithList(rules, rule.regulator)
    /\ UNCHANGED <<now, pc, data, regulator, idx, results, visits, ret, interpretations_cache>>

\* line 58 of the second thread: the Rule is appended, and the loop moves on
\* or is exhausted
LoadRulesAppend ==
    /\ loading # NoneV
    /\ ~loading.done
    /\ loading.rule # NoneV
    /\ rules' = AppendRule(rules, loading.rule)
    /\ loading' = [loading EXCEPT !.rule = NoneV, !.i = loading.i + 1,
                                  !.done = loading.i = Len(loading.rules_data)]
    /\ UNCHANGED <<now, pc, data, regulator, idx, results, visits, ret, interpretations_cache>>

\* a call of validate_rule_consistency
ValidateRuleConsistency ==
    /\ pc = "idle"
    /\ ret' = [op |-> "validate_rule_consistency", args |-> NoneV, raised |-> NoneV,
               value |-> validate_rule_consistency(rules)]
    /\ Forget
    /\ UNCHANGED <<rules, now, pc, interpretations_cache, loading>>

\* the clock advances
Tick ==
    /\ now < MaxTime
    /\ now' = now + 1
    /\ UNCHANGED <<rules, pc, data, regulator, idx, results, visits, ret, interpretations_cache, loading>>

\* lines 166-169 of a call of interpret_regulation: the interpretation is
\* stored under its key, over what the key held, and returned.  "replaced" is
\* history: what the key held before line 167, None if it held nothing.
StoreAndReturn(cache_key_, interpretation, regulation_text, reg, context) ==
    /\ Cardinality(DOMAIN interpretations_cache \cup {cache_key_}) <= MaxCached
    /\ interpretations_cache' = DictSet(interpretations_cache, cache_key_, interpretation)
    /\ ret' = [op |-> "interpret_regulation",
               args |-> [regulation_text |-> regulation_text,
                         regulator |-> reg, context |-> context],
               raised |-> NoneV, value |-> interpretation,
               replaced |-> DictGet(interpretations_cache, cache_key_, NoneV)]

\* a call of interpret_regulation, start to end
InterpretRegulation(regulation_text, reg, context) ==
    /\ pc = "idle"
    /\ StoreAndReturn(CacheKeyOf[regulation_text, reg],
                      InterpretationOf[regulation_text, reg, context, now],
                      regulation_text, reg, context)
    /\ UNCHANGED <<rules, now, pc, data, regulator, idx, results, visits, loading>>

\* lines 375-387 of a call of analyze_regulatory_change, with the two
\* interpretations and the keys they are stored under
CompareAndReturn(old_key, new_key, old_interp, new_interp, old_regulation, new_regulation, reg) ==
    /\ Cardinality(DOMAIN interpretations_cache \cup {old_key, new_key}) <= MaxCached
    /\ interpretations_cache' =
           DictSet(DictSet(interpretations_cache, old_key, old_interp), new_key, new_interp)
    /\ ret' = [op |-> "analyze_regulatory_change",
               args |-> [old_regulation |-> old_regulation,
                         new_regulation |-> new_regulation,
                         regulator |-> reg],
               raised |-> NoneV, value |-> Changes(old_interp, new_interp)]

\* a call of analyze_regulatory_change, start to end: it interprets the old
\* text, then the new one, both without context
AnalyzeRegulatoryChange(old_regulation, new_regulation, reg) ==
    /\ pc = "idle"
    /\ CompareAndReturn(CacheKeyOf[old_regulation, reg], CacheKeyOf[new_regulation, reg],
                        InterpretationOf[old_regulation, reg, NoneV, now],
                        InterpretationOf[new_regulation, reg, NoneV, now],
                        old_regulation, new_regulation, reg)
    /\ UNCHANGED <<rules, now, pc, data, regulator, idx, results, visits, loading>>

\* the next-state relation, for the rules files "files" and data records "datas"
NextOver(files, datas) ==
    \/ \E rules_data \in files : LoadRules(rules_data)
    \/ \E d \in datas, r \in Regulators : ApplyRulesCall(d, r)
    \/ ApplyRulesIterate
    \/ ApplyRulesReturn
    \/ ValidateRuleConsistency
    \/ Tick

\* the next-state relation with two threads: one calls load_rules, the other
\* apply_rules
NextConcurrentOver(files, datas) ==
    \/ \E rules_data \in files : LoadRulesBegin(rules_data)
    \/ LoadRulesConstruct
    \/ LoadRulesAppend
    \/ \E d \in datas, r \in Regulators : ApplyRulesCall(d, r)
    \/ ApplyRulesIterate
    \/ ApplyRulesReturn

\* the next-state relation of the agent, for the texts, the regulators, the
\* contexts and the pairs of an old and a new text given
NextAgentOver(texts, regs, contexts, pairs) ==
    \/ \E regulation_text \in texts, reg \in regs, context \in contexts :
           InterpretRegulation(regulation_text, reg, context)
    \/ \E pair \in pairs, reg \in regs : AnalyzeRegulatoryChange(pair[1], pair[2], reg)
    \/ Tick

(****************************** the inputs **********************************)
\* one record of a rules file
Def(id, reg, type, expr, params, date) ==
    [rule_id |-> id, regulator |-> reg, rule_type |-> type, description |-> "d",
     expression |-> expr, parameters |-> params, version |-> "1.0",
     effective_date |-> date]

Without(record, key) == [k \in DOMAIN record \ {key} |-> record[k]]

Day0 == "2024-01-01"
Day2 == "2024-01-03"
Never == "2099-12-31"

\* records for the store: two regulators sharing a rule_id, and three records
\* that load_rules rejects
SecR1 == Def("R1", "SEC", "validation", "amount > 0", [field |-> "amount", condition |-> "positive"], Day0)
SecR2 == Def("R2", "SEC", "conditional", "if listed", <<>>, Day0)
FcaR1 == Def("R1", "FCA", "calculation", "working_capital", <<>>, Day0)
NoVersion == Without(Def("R3", "SEC", "conditional", "no version", <<>>, Day0), "version")
BogusType == Def("R4", "SEC", "bogus", "no such type", <<>>, Day0)
BadDate == Def("R5", "FCA", "conditional", "no such day", <<>>, "soon")

\* the rules files loaded
StoreFiles ==
    {<<SecR1>>, <<SecR2>>, <<FcaR1>>, <<SecR1, SecR2>>, <<FcaR1, SecR2>>,
     <<SecR1, NoVersion, SecR2>>, <<BogusType>>, <<FcaR1, BadDate>>}

StoreData == {[amount |-> IntV(5)], [amount |-> IntV(-5)]}

Next == NextOver(StoreFiles, StoreData)

Spec == Init /\ [][Next]_vars

\* two threads: the files the one loads and the record the other evaluates,
\* with rules that are all effective from the start
ConcurrentFiles == {<<SecR1>>, <<SecR2, SecR1>>, <<FcaR1, SecR2>>, <<SecR1, NoVersion, SecR2>>}

ConcurrentData == {[amount |-> IntV(5)]}

NextConcurrent == NextConcurrentOver(ConcurrentFiles, ConcurrentData)

SpecConcurrent == Init /\ [][NextConcurrent]_vars

\* records for the engine, all of one regulator: a validation, a transformation
\* that takes two fields, an unregistered calculation, a conditional, a
\* transformation that becomes effective on day 2, a validation that never
\* does, and a registered calculation with the rule_id of the unregistered one
\* that becomes effective on day 2
EngV == Def("V1", "SEC", "validation", "amount > 0", [field |-> "amount", condition |-> "positive"], Day0)
EngT == Def("T1", "SEC", "transformation", "standardize_currency", [fields |-> <<"amount", "fee">>, rate |-> IntV(-2)], Day0)
EngC == Def("C1", "SEC", "calculation", "net_margin", <<>>, Day0)
EngK == Def("K1", "SEC", "conditional", "if listed", <<>>, Day0)
EngF == Def("T2", "SEC", "transformation", "standardize_currency", [fields |-> <<"amount">>, rate |-> IntV(3)], Day2)
EngN == Def("V2", "SEC", "validation", "fee present", [field |-> "fee", condition |-> "required"], Never)
EngW == Def("C1", "SEC", "calculation", "working_capital", <<>>, Day2)

EngineFiles == {<<EngV>>, <<EngT>>, <<EngC>>, <<EngK>>, <<EngF>>, <<EngN>>}

EngineData ==
    {[amount |-> IntV(5), fee |-> IntV(1)],
     [amount |-> IntV(5), fee |-> NoneV],
     [amount |-> StrV("ab")]}

NextEngine == NextOver(EngineFiles, EngineData)

SpecEngine == Init /\ [][NextEngine]_vars

\* the same with the registered calculation in place of the validation that is
\* never effective: every rule type, with evaluators that succeed and that fail
BundleFiles == {<<EngV>>, <<EngT>>, <<EngC>>, <<EngK>>, <<EngF>>, <<EngW>>}

NextBundle == NextOver(BundleFiles, EngineData)

SpecBundle == Init /\ [][NextBundle]_vars

\* transformation records: rates 2 and 3 on amount, a fields list that names
\* amount twice and then fee, a rule with another expression, and a rule
\* without a rate that becomes effective on day 2
X2 == Def("X2", "SEC", "transformation", "standardize_currency", [fields |-> <<"amount">>, rate |-> IntV(2)], Day0)
X3 == Def("X3", "SEC", "transformation", "standardize_currency", [fields |-> <<"amount">>, rate |-> IntV(3)], Day0)
XD == Def("XD", "SEC", "transformation", "standardize_currency", [fields |-> <<"amount", "amount", "fee">>, rate |-> IntV(5)], Day0)
XO == Def("XO", "SEC", "transformation", "round_amounts", [fields |-> <<"amount">>, rate |-> IntV(7)], Day0)
XL == Def("XL", "SEC", "transformation", "standardize_currency", [fields |-> <<"amount">>], Day2)

TransformFiles == {<<X2>>, <<X3>>, <<XD>>, <<XO>>, <<XL>>}

TransformData ==
    {[amount |-> IntV(5), fee |-> IntV(1)],
     [amount |-> IntV(5), fee |-> NoneV],
     [amount |-> StrV("ab")],
     [fee |-> IntV(1)]}

NextTransform == NextOver(TransformFiles, TransformData)

SpecTransform == Init /\ [][NextTransform]_vars

\* validation records: the two built-in conditions, another condition, and
\* parameters without a field, without a condition
VReq == Def("V1", "SEC", "validation", "revenue present", [field |-> "revenue", condition |-> "required"], Day0)
VPos == Def("V2", "SEC", "validation", "revenue > 0", [field |-> "revenue", condition |-> "positive"], Day0)
VOth == Def("V3", "SEC", "validation", "revenue # 0", [field |-> "revenue", condition |-> "nonzero"], Day0)
VNoField == Def("V4", "SEC", "validation", "revenue > 0", [condition |-> "positive"], Day0)
VNoCond == Def("V5", "SEC", "validation", "revenue > 0", [field |-> "revenue"], Day0)

ValidationFiles == {<<VReq>>, <<VPos>>, <<VOth>>, <<VNoField>>, <<VNoCond>>}

ValidationData ==
    {[revenue |-> IntV(-1000)], [revenue |-> IntV(500)], [revenue |-> IntV(0)],
     [revenue |-> NoneV], [revenue |-> StrV("n/a")], [revenue |-> FloatV(-1, 2)],
     [amount |-> IntV(5)]}

NextValidation == NextOver(ValidationFiles, ValidationData)

SpecValidation == Init /\ [][NextValidation]_vars

\* calculation records: the two registered functions and an unregistered name
CDe == Def("C1", "SEC", "calculation", "debt_to_equity_ratio", <<>>, Day0)
CWc == Def("C2", "SEC", "calculation", "working_capital", <<>>, Day0)
CUn == Def("C3", "SEC", "calculation", "net_margin", <<>>, Day0)

CalculationFiles == {<<CDe>>, <<CWc>>, <<CUn>>}

CalculationData ==
    {[total_debt |-> IntV(200), total_equity |-> IntV(0)],
     [total_debt |-> IntV(200), total_equity |-> IntV(4)],
     [total_debt |-> IntV(3), total_equity |-> IntV(-2)],
     [total_debt |-> IntV(200), total_equity |-> FloatV(0, 1)],
     [total_debt |-> IntV(200)],
     [total_equity |-> IntV(4)],
     [total_debt |-> StrV("n/a"), total_equity |-> IntV(0)],
     [total_debt |-> StrV("n/a"), total_equity |-> IntV(4)],
     [total_debt |-> IntV(200), total_equity |-> NoneV],
     [total_debt |-> NoneV, total_equity |-> IntV(0)]}

NextCalculation == NextOver(CalculationFiles, CalculationData)

SpecCalculation == Init /\ [][NextCalculation]_vars

InterpreterTexts == {TxReport, TxMayNot, TxEps}
InterpreterContexts == {NoneV, [filing |-> "10-K"]}
InterpreterPairs == {<<TxReport, TxMayNot>>}

NextInterpreter ==
    NextAgentOver(InterpreterTexts, Regulators, InterpreterContexts, InterpreterPairs)

SpecInterpreter == Init /\ [][NextInterpreter]_vars

\* texts of no category, of each category alone, of two categories next to
\* each other in the order of the checks, and of all five
ClassifyTexts ==
    {TxReport, TxX, TxMayNot, TxCaps, TxDef, TxCalcProhib, TxProhibExempt,
     TxExemptProcess, TxProcessDef, TxProhibDef, TxAll}
ClassifyPairs == {<<TxDef, TxCalcProhib>>}

NextClassify == NextAgentOver(ClassifyTexts, {"SEC"}, {NoneV}, ClassifyPairs)

SpecClassify == Init /\ [][NextClassify]_vars

\* texts with no, one, three and four data fields, with no, two and three
\* conditions, with and without a formula, and with no, one and every
\* ambiguous term
ConfidenceTexts ==
    {TxReport, TxMayNot, TxEps, TxCaps, TxVague, TxSpaced, TxProhib2, TxReportEps, TxX}
ConfidencePairs == {<<TxVague, TxCaps>>}

NextConfidence == NextAgentOver(ConfidenceTexts, Regulators, {NoneV}, ConfidencePairs)

SpecConfidence == Init /\ [][NextConfidence]_vars

\* an old and a new text for every branch of _assess_change_impact: a new
\* prohibition with fewer data fields and no formula left, one with more data
\* fields, a prohibition after a prohibition, more data fields with and without
\* a changed formula, another formula, fewer data fields, and four texts
\* against themselves
ChangeTexts == {TxReport, TxMayNot}
ChangePairs ==
    {<<TxEps, TxMayNot>>, <<TxReport, TxProhib2>>, <<TxMayNot, TxProhib2>>,
     <<TxProhib2, TxMayNot>>, <<TxX, TxReport>>, <<TxDef, TxReport>>,
     <<TxX, TxY>>, <<TxReport, TxDef>>, <<TxY, TxY>>, <<TxEps, TxEps>>,
     <<TxProhib2, TxProhib2>>, <<TxReport, TxReport>>}

NextChange == NextAgentOver(ChangeTexts, Regulators, {NoneV}, ChangePairs)

SpecChange == Init /\ [][NextChange]_vars

(******************************* the engine *********************************)
\* the last call of apply_rules ran its loop to the end and returned its bundle
Returned == pc = "idle" /\ ret.op = "apply_rules" /\ ret.raised = NoneV

\* the rule of a visit was effective when the loop reached it
VisitEffective(v) == v.rule.effective_date.day <= v.at

EffectiveVisits == SelectSeq(visits, VisitEffective)

\* the evaluator of the rule faults on the data: it raises, or the rule names a
\* calculation that is not registered
Faults(rule, d) ==
    \/ IsRaise(Dispatch(rule, d))
    \/ rule.rule_type = CALCULATION /\ rule.expression \notin rule_functions

\* C2: a call of apply_rules for a regulator with rules never raises; every
\* effective rule of the list has its own entry in rule_applications, and the
\* entry says error exactly for the rules whose evaluator faulted.
C2_PartialFailureIsolation ==
    /\ (ret.op = "apply_rules" /\ HasKey(rules, ret.args.regulator)) => ret.raised = NoneV
    /\ Returned =>
          LET apps == ret.value.rule_applications
          IN  /\ Len(visits) = Len(rules.of[regulator])
              /\ Len(apps) = Len(EffectiveVisits)
              /\ \A k \in 1..Len(apps) :
                     /\ apps[k].rule_id = EffectiveVisits[k].rule.rule_id
                     /\ apps[k].status = "error"
                          <=> Faults(EffectiveVisits[k].rule, EffectiveVisits[k].handed)

C2_Witness ==
    /\ Returned
    /\ Len(visits) = 3
    /\ IsRaise(Dispatch(visits[2].rule, visits[2].handed))
    /\ Len(ret.value.rule_applications) = 3
    /\ ret.value.rule_applications[1].status = "passed"
    /\ ret.value.rule_applications[2].status = "error"
    /\ ret.value.rule_applications[3].status = "success"

\* the data after the first k visits of the call: the caller's data with the
\* transformations of the effective rules among them that succeeded, in order
RECURSIVE Forward(_)
Forward(k) ==
    IF k = 0 THEN data
    ELSE LET before == Forward(k - 1)
             v == visits[k]
             out == _apply_transformation_rule(v.rule, before)
         IN  IF VisitEffective(v) /\ v.rule.rule_type = TRANSFORMATION /\ ~IsRaise(out)
             THEN out.transformed_data
             ELSE before

\* the k-th effective visit is visit number PositionOf(k)
RECURSIVE PositionOf(_)
PositionOf(k) ==
    LET from == IF k = 1 THEN 1 ELSE PositionOf(k - 1) + 1
    IN  CHOOSE i \in from..Len(visits) :
            VisitEffective(visits[i]) /\ \A j \in from..(i - 1) : ~VisitEffective(visits[j])

TheBundle == IF pc = "apply_rules" THEN results ELSE ret.value

\* C4: the data handed to the evaluator at each position is the caller's data
\* with the successful transformations of the effective rules before that
\* position applied, and nothing else; so each entry of the audit trail is what
\* the rule gives on that data, whatever rules come later.
C4_ForwardOnlyVisibility ==
    (pc = "apply_rules" \/ Returned) =>
        /\ \A i \in 1..Len(visits) : visits[i].handed = Forward(i - 1)
        /\ TheBundle.data = Forward(Len(visits))
        /\ \A k \in 1..Len(TheBundle.rule_applications) :
               LET v == visits[PositionOf(k)]
                   result == _apply_single_rule(v.rule, Forward(PositionOf(k) - 1))
               IN  /\ TheBundle.rule_applications[k].status = result.status
                   /\ TheBundle.rule_applications[k].output = DictGet(result, "output", NoneV)

C4_Witness ==
    /\ Returned
    /\ RuleIds([i \in 1..Len(visits) |-> visits[i].rule]) = <<"V1", "T1", "V1">>
    /\ data = [amount |-> IntV(5), fee |-> IntV(1)]
    /\ ret.value.rule_applications[1].status = "passed"
    /\ ret.value.rule_applications[3].status = "failed"
    /\ ret.value.data.amount = IntV(-10)

\* C5: an iteration of the loop on a rule whose effective_date is later than
\* the clock leaves the bundle as it is (no audit entry, no validation result,
\* no calculation, the same data); an iteration on any other rule adds that
\* rule's entry to the audit trail.
C5_EffectiveDate ==
    [][(pc = "apply_rules" /\ Len(visits') = Len(visits) + 1) =>
          LET rule == rules.of[regulator][idx]
          IN  IF rule.effective_date.day > now
              THEN results' = results
              ELSE /\ pc' = "apply_rules"
                   /\ Len(results'.rule_applications) = Len(results.rule_applications) + 1
                   /\ results'.rule_applications[Len(results'.rule_applications)].rule_id
                        = rule.rule_id]_vars

C5_Witness ==
    /\ Returned
    /\ RuleIds([i \in 1..Len(visits) |-> visits[i].rule]) = <<"T2", "V2", "T2">>
    /\ ~VisitEffective(visits[1])
    /\ VisitEffective(visits[3])
    /\ RuleIds(ret.value.rule_applications) = <<"T2">>
    /\ ret.value.validation_results = <<>>
    /\ ret.value.data.amount = IntV(15)

\* C7: the audit trail of a returned bundle has one entry for each rule of the
\* regulator's list that was effective when the loop reached it, and its
\* rule_ids are those rules' ids in load order, repeated ids included.
C7_AuditTrail ==
    Returned =>
        /\ [i \in 1..Len(visits) |-> visits[i].rule] = rules.of[regulator]
        /\ RuleIds(ret.value.rule_applications)
             = RuleIds([k \in 1..Len(EffectiveVisits) |-> EffectiveVisits[k].rule])

C7_Witness ==
    /\ Returned
    /\ RuleIds(rules.of[regulator]) = <<"K1", "V2", "K1">>
    /\ RuleIds(ret.value.rule_applications) = <<"K1", "K1">>

\* the rule of visit k is a standardize_currency transformation, effective when
\* the loop reached it, whose fields list names field f
Standardizes(k, f) ==
    LET rule == visits[k].rule
        fields == DictGet(rule.parameters, "fields", <<>>)
    IN  /\ VisitEffective(visits[k])
        /\ rule.rule_type = TRANSFORMATION
        /\ rule.expression = "standardize_currency"
        /\ \E i \in 1..Len(fields) : fields[i] = f

RateOf(k) == DictGet(visits[k].rule.parameters, "rate", FloatV(1, 1))

\* the value of field f multiplied by the rate of each of the first k visits
\* that standardizes f, in turn
RECURSIVE RatesInTurn(_, _)
RatesInTurn(f, k) ==
    IF k = 0 THEN data[f]
    ELSE IF Standardizes(k, f) THEN PyMul(RatesInTurn(f, k - 1), RateOf(k))
    ELSE RatesInTurn(f, k - 1)

\* C3 as claimed: in a returned bundle, a numeric field is its input value
\* multiplied in turn by the rate of every effective standardize_currency rule
\* that names it.
C3_EveryRateInTurn ==
    Returned =>
        \A f \in DOMAIN data :
            IsNumber(data[f]) => ret.value.data[f] = RatesInTurn(f, Len(visits))

\* the audit entry of visit k, an effective visit
EntryOf(k) ==
    ret.value.rule_applications[Cardinality({j \in 1..k : VisitEffective(visits[j])})]

RECURSIVE MulTimes(_, _, _)
MulTimes(x, rate, n) == IF n = 0 THEN x ELSE PyMul(MulTimes(x, rate, n - 1), rate)

Occurrences(k, f) ==
    LET fields == DictGet(visits[k].rule.parameters, "fields", <<>>)
    IN  Cardinality({i \in 1..Len(fields) : fields[i] = f})

RECURSIVE Composed(_, _)
Composed(f, k) ==
    IF k = 0 THEN data[f]
    ELSE IF Standardizes(k, f) /\ EntryOf(k).status = "success"
    THEN MulTimes(Composed(f, k - 1), RateOf(k), Occurrences(k, f))
    ELSE Composed(f, k - 1)

\* C3: in a returned bundle, every field of the input is its input value
\* multiplied, in load order, by the rate of each effective standardize_currency
\* rule that names it and ended with status success, once for each time that
\* rule's fields list names it; each rule works on the output of the one before.
C3_SequentialComposition ==
    Returned => \A f \in DOMAIN data : ret.value.data[f] = Composed(f, Len(visits))

C3_Witness ==
    /\ Returned
    /\ RuleIds([i \in 1..Len(visits) |-> visits[i].rule]) = <<"X2", "X3">>
    /\ data = [amount |-> IntV(5), fee |-> NoneV]
    /\ ret.value.data.amount = IntV(30)
    /\ ret.value.rule_applications[1].status = "success"
    /\ ret.value.rule_applications[2].status = "success"

\* the outcome C8 gives for a validation rule with parameters p on data d
ClaimedOutcome(p, d) ==
    IF "field" \in DOMAIN p /\ "condition" \in DOMAIN p
    THEN LET x == DictGet(d, p.field, NoneV)
         IN  IF p.condition = "required" /\ x = NoneV THEN "failed"
             ELSE IF p.condition = "positive" /\ IsNumber(x) /\ x.v < 0 THEN "failed"
             ELSE "passed"
    ELSE "passed"

\* C8: the outcome of a validation rule is failed when the condition is
\* "required" and the field is absent or None, failed when the condition is
\* "positive" and the field is a number below 0, and passed in every other case:
\* another condition, a value that is no number, parameters without field or
\* condition.
C8_ValidationOutcome ==
    (pc = "apply_rules" \/ Returned) =>
        \A k \in 1..Len(TheBundle.rule_applications) :
            LET v == visits[PositionOf(k)]
            IN  v.rule.rule_type = VALIDATION =>
                    TheBundle.rule_applications[k].status
                      = ClaimedOutcome(v.rule.parameters, v.handed)

\* C9: a debt_to_equity_ratio rule gives 0 when total_equity is zero and the
\* quotient total_debt / total_equity when it is another number; it ends with
\* status error only when one of the two is no number, never for a zero divisor.
C9_DebtToEquity ==
    (pc = "apply_rules" \/ Returned) =>
        \A k \in 1..Len(TheBundle.rule_applications) :
            LET v == visits[PositionOf(k)]
                debt == DictGet(v.handed, "total_debt", IntV(0))
                equity == DictGet(v.handed, "total_equity", IntV(1))
                e == TheBundle.rule_applications[k]
            IN  (v.rule.rule_type = CALCULATION /\ v.rule.expression = "debt_to_equity_ratio") =>
                    /\ (IsNumber(equity) /\ equity.v = 0) =>
                           e.status = "success" /\ e.output = IntV(0)
                    /\ (IsNumber(equity) /\ equity.v # 0 /\ IsNumber(debt)) =>
                           /\ e.status = "success"
                           /\ e.output.t = "float"
                           /\ e.output.v * equity.v * debt.d = debt.v * equity.d * e.output.d
                    /\ e.status = "error" =>
                           /\ ~(IsNumber(equity) /\ equity.v = 0)
                           /\ ~(IsNumber(equity) /\ IsNumber(debt))

C9_Witness ==
    /\ Returned
    /\ data = [total_debt |-> IntV(200), total_equity |-> IntV(0)]
    /\ Len(visits) = 2
    /\ visits[2].rule.expression = "debt_to_equity_ratio"
    /\ ret.value.rule_applications[2].status = "success"
    /\ ret.value.rule_applications[2].output = IntV(0)
    /\ ret.value.calculations["C1"] = IntV(0)

(******************************* the store **********************************)
\* the rules load_rules builds from the records of a file that name regulator r
RulesFor(rules_data, r) ==
    LET named == SelectSeq(rules_data, LAMBDA rd : rd.regulator = r)
    IN  [i \in 1..Len(named) |-> MakeRule(named[i])]

NamedIn(rules_data) == {rules_data[i].regulator : i \in 1..Len(rules_data)}

\* C1: after a load that ran to its end, the list held for every regulator the
\* file names is exactly that file's records for the regulator, in file order;
\* what earlier loads stored for it is gone.
C1_LoadReplaces ==
    (ret.op = "load_rules" /\ ret.raised = NoneV) =>
        \A r \in NamedIn(ret.args) :
            HasKey(rules, r) /\ rules.of[r] = RulesFor(ret.args, r)

\* C6: a call of apply_rules for a regulator without a list in the store raises
\* ValueError with a message that ends in the regulator, returns no bundle, and
\* leaves the store and the caller's data as they were.
C6_UnknownRegulator ==
    [][(/\ pc = "idle"
        /\ now' = now
        /\ ret'.op \in {"apply_rules", "__init__"}
        /\ ~HasKey(rules, regulator'))
       => (/\ ret'.op = "apply_rules"
           /\ ret'.raised = Raise("ValueError", "No rules found for regulator: " \o regulator')
           /\ ret'.value = NoneV
           /\ pc' = "idle"
           /\ results' = NoneV
           /\ rules' = rules
           /\ data' = ret'.args.data)]_vars

C6_Witness ==
    /\ ret.op = "apply_rules"
    /\ IsRaise(ret.raised)
    /\ ret.args.regulator = "FCA"
    /\ HasKey(rules, "SEC")
    /\ data = [amount |-> IntV(5)]

HasRepeatedId(rule_list) ==
    \E i, j \in 1..Len(rule_list) : i < j /\ rule_list[i].rule_id = rule_list[j].rule_id

WellFormed(rule_data) == ~IsRaise(MakeRule(rule_data))

Stored(rule) ==
    /\ HasKey(rules, rule.regulator)
    /\ \E i \in 1..Len(rules.of[rule.regulator]) : rules.of[rule.regulator][i] = rule

\* C11: when load_rules finishes, with or without an exception, every record
\* of the file that is well formed is in the store, those after a malformed
\* record included.
C11_MalformedRecordIsolated ==
    ret.op = "load_rules" =>
        \A i \in 1..Len(ret.args) :
            WellFormed(ret.args[i]) => Stored(MakeRule(ret.args[i]))

\* record i is the one load_rules stops at: its rule_type is none of the four
\* values, and every record before it is well formed
StopsAtRuleType(rules_data, i) ==
    /\ \A j \in 1..(i - 1) : WellFormed(rules_data[j])
    /\ {"rule_id", "regulator", "rule_type"} \subseteq DOMAIN rules_data[i]
    /\ rules_data[i].rule_type \notin {m.value : m \in RuleTypeMembers}

\* C12: a load that reaches a record whose rule_type is none of the four values
\* raises the ValueError of the enum, which names the value, and stores no rule
\* from that record; every rule in the store has one of the four rule types.
C12_InvalidRuleType ==
    /\ \A r \in DOMAIN rules.of : \A i \in 1..Len(rules.of[r]) :
           rules.of[r][i].rule_type \in RuleTypeMembers
    /\ ret.op = "load_rules" =>
           \A i \in 1..Len(ret.args) :
               StopsAtRuleType(ret.args, i) =>
                   /\ ret.raised = Raise("ValueError",
                          "'" \o ret.args[i].rule_type \o "' is not a valid RuleType")
                   /\ \A r \in DOMAIN rules.of : \A k \in 1..Len(rules.of[r]) :
                          rules.of[r][k].rule_id # ret.args[i].rule_id

C12_Witness ==
    /\ ret.op = "load_rules"
    /\ ret.args = <<BogusType>>
    /\ IsRaise(ret.raised)
    /\ HasKey(rules, "SEC")
    /\ RuleIds(rules.of["SEC"]) = <<"R1", "R2">>

(*************************** failure messages *******************************)
\* C13: the ValueError for a regulator without rules names the regulator, and
\* the message of the entry for a calculation rule whose expression is not
\* registered names the expression and every registered calculation.
C13_FailureNamesIdentifiers ==
    /\ (ret.op = "apply_rules" /\ IsRaise(ret.raised) /\ ~HasKey(rules, ret.args.regulator))
          => StrIn(ret.args.regulator, ret.raised.message)
    /\ Returned =>
          \A k \in 1..Len(ret.value.rule_applications) :
              LET rule == EffectiveVisits[k].rule
                  entry == ret.value.rule_applications[k]
              IN  (rule.rule_type = CALCULATION /\ rule.expression \notin rule_functions)
                    => /\ entry.status = "error"
                       /\ StrIn(rule.expression, entry.message.s)
                       /\ \A name \in rule_functions : StrIn(name, entry.message.s)

(************************ the transformations mapping ***********************)
\* C14: the bundle's "transformations" has, for every effective TRANSFORMATION
\* rule the call applied, an entry under its rule_id that holds the parameters
\* of the last such rule with that id.
C14_TransformationsMapping ==
    Returned =>
        \A k \in 1..Len(EffectiveVisits) :
            LET rule == EffectiveVisits[k].rule
                later == {j \in (k + 1)..Len(EffectiveVisits) :
                             /\ EffectiveVisits[j].rule.rule_type = TRANSFORMATION
                             /\ EffectiveVisits[j].rule.rule_id = rule.rule_id}
            IN  (rule.rule_type = TRANSFORMATION /\ later = {})
                  => /\ rule.rule_id \in DOMAIN ret.value.transformations
                     /\ ret.value.transformations[rule.rule_id] = rule.parameters

(************************** the interpreter agent ***************************)
\* the categories in the order of the claimed priority
Priority == <<CALCULATION_TYPE, PROHIBITION, EXEMPTION, PROCESS, DEFINITION>>

\* the cleaned text, in lower case, has a phrase of category k of Priority
MatchesCategory(k, text_lower) ==
    CASE k = 1 -> AnySearch(regulatory_patterns.calculations, text_lower)
      [] k = 2 -> AnySearch(regulatory_patterns.prohibitions, text_lower)
      [] k = 3 -> AnySearch(regulatory_patterns.exemptions, text_lower)
      [] k = 4 -> \E word \in {"procedure", "process", "steps"} : StrIn(word, text_lower)
      [] k = 5 -> \E word \in {"means", "defined as"} : StrIn(word, text_lower)

\* the categories every text of the catalogue matches, evaluated once
MatchedOf ==
    [regulation_text \in Texts |->
        LET text_lower == lower(_preprocess_text(regulation_text))
        IN  {k \in 1..Len(Priority) : MatchesCategory(k, text_lower)}]

\* C15: the interpretation type of an interpretation is the first category, in
\* the order CALCULATION, PROHIBITION, EXEMPTION, PROCESS, DEFINITION, that the
\* text matches, and REQUIREMENT exactly when it matches none.
C15_FirstMatchWins ==
    ret.op = "interpret_regulation" =>
        LET matched == MatchedOf[ret.args.regulation_text]
        IN  /\ matched # {} =>
                  ret.value.interpretation_type =
                      Priority[CHOOSE k \in matched : \A j \in matched : k <= j]
            /\ matched = {} <=> ret.value.interpretation_type = REQUIREMENT

C15_Witness ==
    /\ ret.op = "interpret_regulation"
    /\ ret.args.regulation_text = TxCalcProhib
    /\ MatchedOf[TxCalcProhib] = {1, 2}
    /\ ret.value.interpretation_type = CALCULATION_TYPE

\* C16: the confidence score of every interpretation returned or cached is a
\* float from 0.0 to 1.0.
C16_ConfidenceBounds ==
    LET InBounds(interpretation) ==
            LET score == interpretation.confidence_score
            IN  score.t = "float" /\ 0 <= score.v /\ score.v <= score.d
    IN  /\ ret.op = "interpret_regulation" => InBounds(ret.value)
        /\ \A key \in DOMAIN interpretations_cache : InBounds(interpretations_cache[key])

\* three data fields, two conditions and a formula add up to 1.2
C16_Witness ==
    /\ ret.op = "interpret_regulation"
    /\ ret.args.regulation_text = TxEps
    /\ ret.args.regulator = "SEC"
    /\ Score(ret.value) = 24
    /\ ret.value.confidence_score = FloatV(1, 1)

\* the number of places of the text at which the term starts
Places(term, text) ==
    Cardinality({i \in 1..(Len(text) - Len(term) + 1) :
                    SubSeq(text, i, i + Len(term) - 1) = term})

\* the occurrences of the ambiguous terms in every text of the catalogue, as
\* the caller passes it, whatever the case; evaluated once
MarkersOf ==
    [regulation_text \in Texts |->
        LET text_lower == lower(regulation_text)
            count[k \in 0..Len(ambiguous_terms)] ==
                IF k = 0 THEN 0
                ELSE count[k - 1] + Places(ambiguous_terms[k], text_lower)
        IN  count[Len(ambiguous_terms)]]

\* C17: the confidence score is 0.5, plus 0.1 for each of up to three distinct
\* data requirements, plus 0.1 for each of up to two conditions, plus 0.2 with
\* a calculation formula, minus 0.05 for each occurrence of an ambiguous term
\* in the text as the caller passed it, clamped to 0.0 .. 1.0.
C17_ScorePerOccurrence ==
    ret.op = "interpret_regulation" =>
        LET requirements == 2 * Min(Cardinality(ret.value.data_requirements), 3)
            conditions == 2 * Min(Len(ret.value.conditions), 2)
            formula == IF ret.value.calculation_formula # NoneV THEN 4 ELSE 0
            markers == MarkersOf[ret.args.regulation_text]
            twentieths == 10 + requirements + conditions + formula - markers
        IN  ret.value.confidence_score = FloatV(Min(Max(twentieths, 0), 20), 20)

\* the keys of the catalogue are those of different texts and regulators
DistinctKeys ==
    \A t1, t2 \in Texts, r1, r2 \in Regulators :
        CacheKeyOf[t1, r1] = CacheKeyOf[t2, r2] => (t1 = t2 /\ r1 = r2)

\* C18: a call of interpret_regulation returns the interpretation type, the
\* set of data requirements and the confidence score that the earlier call
\* with the same text and regulator returned, whatever the cache held, the
\* time, the context and the calls in between.
C18_Deterministic ==
    /\ DistinctKeys
    /\ (ret.op = "interpret_regulation" /\ ret.replaced # NoneV) =>
          /\ ret.value.interpretation_type = ret.replaced.interpretation_type
          /\ ret.value.data_requirements = ret.replaced.data_requirements
          /\ ret.value.confidence_score = ret.replaced.confidence_score

\* the second call comes later and with another context than the first, and a
\* call with another text came in between
C18_Witness ==
    /\ ret.op = "interpret_regulation"
    /\ ret.replaced # NoneV
    /\ ret.replaced.effective_date.day < ret.value.effective_date.day
    /\ ret.replaced.metadata.context # ret.value.metadata.context
    /\ \E key \in DOMAIN interpretations_cache :
           /\ key # CacheKeyOf[ret.args.regulation_text, ret.args.regulator]
           /\ interpretations_cache[key].effective_date.day > ret.replaced.effective_date.day

\* the severity of an impact assessment: what stands before " - "
Severity(impact_assessment) ==
    LET dash == CHOOSE i \in 1..Len(impact_assessment) :
                    /\ SubSeq(impact_assessment, i, i + 2) = " - "
                    /\ \A j \in 1..(i - 1) : SubSeq(impact_assessment, j, j + 2) # " - "
    IN  SubSeq(impact_assessment, 1, dash - 1)

\* the interpretations of the old and of the new text that the last call of
\* analyze_regulatory_change compared: the ones it left in the cache
OldInterpretation ==
    interpretations_cache[CacheKeyOf[ret.args.old_regulation, ret.args.regulator]]
NewInterpretation ==
    interpretations_cache[CacheKeyOf[ret.args.new_regulation, ret.args.regulator]]

\* C19: the severity analyze_regulatory_change reports is HIGH when the new
\* interpretation is a PROHIBITION and the old one is not, whatever else
\* changed; otherwise MEDIUM when the new one has more data requirements;
\* otherwise MEDIUM when the calculation formula differs; otherwise LOW.
C19_ImpactPrecedence ==
    ret.op = "analyze_regulatory_change" =>
        LET prohibition == /\ NewInterpretation.interpretation_type = PROHIBITION
                           /\ OldInterpretation.interpretation_type # PROHIBITION
            more == Cardinality(NewInterpretation.data_requirements)
                      > Cardinality(OldInterpretation.data_requirements)
            formula == NewInterpretation.calculation_formula
                         # OldInterpretation.calculation_formula
            severity == Severity(ret.value.impact_assessment)
        IN  /\ prohibition => severity = "HIGH"
            /\ (~prohibition /\ more) => severity = "MEDIUM"
            /\ (~prohibition /\ ~more /\ formula) => severity = "MEDIUM"
            /\ (~prohibition /\ ~more /\ ~formula) => severity = "LOW"
            /\ (~prohibition /\ more) =>
                   ret.value.impact_assessment = "MEDIUM - Additional reporting requirements"
            /\ (~prohibition /\ ~more /\ formula) =>
                   ret.value.impact_assessment = "MEDIUM - Calculation methodology changed"

\* a new prohibition that also adds a data requirement
C19_Witness ==
    /\ ret.op = "analyze_regulatory_change"
    /\ ret.args.old_regulation = TxReport
    /\ ret.args.new_regulation = TxProhib2
    /\ OldInterpretation.interpretation_type = REQUIREMENT
    /\ NewInterpretation.interpretation_type = PROHIBITION
    /\ Cardinality(NewInterpretation.data_requirements)
         > Cardinality(OldInterpretation.data_requirements)
    /\ Severity(ret.value.impact_assessment) = "HIGH"

\* C20: an entry of the interpretation cache, once written, keeps every field:
\* no later call changes what the cache holds under a key it already has.
C20_EntriesImmutable ==
    [][\A key \in DOMAIN interpretations_cache :
           /\ key \in DOMAIN interpretations_cache'
           /\ interpretations_cache'[key] = interpretations_cache[key]]_vars

(************************* load beside evaluate *****************************)
\* the rules the loop of apply_rules has visited, in turn
Visited == [k \in 1..Len(visits) |-> visits[k].rule]

IsPrefix(s, t) == Len(s) <= Len(t) /\ s = SubSeq(t, 1, Len(s))

\* C21: load_rules and apply_rules are not serialized against each other.  A
\* call of apply_rules that returned beside a load_rules for its regulator
\* has applied the head of the regulator's list, at least as far as the list
\* went when the loop made its first visit; how far beyond depends on how the
\* two threads interleaved, so it can be neither the list before the load nor
\* the list after it.
C21_UnserializedLoad ==
    (Returned /\ loading # NoneV) =>
        /\ IsPrefix(Visited, rules.of[regulator])
        /\ visits # <<>> => Len(visits) >= visits[1].size

\* the loop made its first visit when the list was as before the load, the
\* load is over, and the rules applied are neither list
C21_Witness ==
    /\ Returned
    /\ loading # NoneV
    /\ loading.done
    /\ HasKey(loading.before, regulator)
    /\ visits # <<>>
    /\ visits[1].size = Len(loading.before.of[regulator])
    /\ Visited # loading.before.of[regulator]
    /\ Visited # rules.of[regulator]
    /\ ret.value.rule_applications # <<>>
    /\ RuleIds(ret.value.rule_applications) = RuleIds(Visited)

(************************* the store, again *********************************)
\* C22: after any calls of load_rules, no list of the store holds two rules
\* with the same rule_id.
C22_DistinctRuleIds ==
    ret.op = "load_rules" => \A r \in DOMAIN rules.of : ~HasRepeatedId(rules.of[r])

(************************* statuses by rule type ****************************)
StatusesOf(rule_type) ==
    IF rule_type = VALIDATION THEN {"passed", "failed", "error"}
    ELSE IF rule_type \in {CALCULATION, TRANSFORMATION} THEN {"success", "error"}
    ELSE {"success"}

\* the statuses that the entries of rules of the type have in the bundle returned
StatusesSeen(rule_type) ==
    {ret.value.rule_applications[k].status :
        k \in {j \in 1..Len(EffectiveVisits) : EffectiveVisits[j].rule.rule_type = rule_type}}

\* C23: in a returned bundle the status of every entry of rule_applications is
\* passed, failed or error for a validation rule, success or error for a
\* calculation or a transformation rule, and success for a conditional rule.
C23_StatusByRuleType ==
    Returned =>
        /\ Len(ret.value.rule_applications) = Len(EffectiveVisits)
        /\ \A k \in 1..Len(EffectiveVisits) :
               ret.value.rule_applications[k].status
                   \in StatusesOf(EffectiveVisits[k].rule.rule_type)

C23_Witness ==
    /\ Returned
    /\ StatusesSeen(VALIDATION) = {"error"}
    /\ StatusesSeen(CALCULATION) = {"success"}
    /\ StatusesSeen(CONDITIONAL) = {"success"}

(************************* one instant per call *****************************)
\* C24: the rules a call of apply_rules applied are those of the list that
\* were effective at one time t, whatever the clock did while the call ran.
C24_SingleInstant ==
    Returned =>
        \E t \in 0..MaxTime :
            \A k \in 1..Len(visits) :
                VisitEffective(visits[k]) <=> visits[k].rule.effective_date.day <= t

(************************* known formulas ***********************************)
\* the regulator has an entry of domain knowledge with calculations
HasCalculations(reg) ==
    /\ lower(reg) \in DOMAIN domain_knowledge
    /\ "calculations" \in DOMAIN domain_knowledge[lower(reg)]

\* the confidence of the interpretation of a text for a regulator, were its
\* calculation_formula None; evaluated once
WithoutBonusOf ==
    [regulation_text \in Texts, reg \in Regulators |->
        _calculate_confidence([InterpretationOf[regulation_text, reg, NoneV, 0]
                                   EXCEPT !.calculation_formula = NoneV])]

\* C25: an interpretation that interpret_regulation returns has a
\* calculation_formula only when its type is CALCULATION and the regulator,
\* in lower case, has domain knowledge with calculations; without a formula
\* its confidence is the one computed with no formula bonus.
C25_FormulaOnlyForCalculation ==
    ret.op = "interpret_regulation" =>
        /\ ret.value.calculation_formula # NoneV =>
               /\ ret.value.interpretation_type = CALCULATION_TYPE
               /\ HasCalculations(ret.args.regulator)
        /\ ret.value.calculation_formula = NoneV =>
               ret.value.confidence_score
                   = WithoutBonusOf[ret.args.regulation_text, ret.args.regulator]

\* a calculation text that names a known formula of the SEC, interpreted for
\* the FCA, which has no calculations: no formula, and the score is 0.5
C25_Witness ==
    /\ ret.op = "interpret_regulation"
    /\ ret.args.regulation_text = TxX
    /\ ret.args.regulator = "FCA"
    /\ ret.value.interpretation_type = CALCULATION_TYPE
    /\ ret.value.metadata.components.calculations = <<"eps">>
    /\ ret.value.calculation_formula = NoneV
    /\ ret.value.confidence_score = FloatV(1, 2)

(************************* nothing but the bundle ***************************)
\* the for loop of apply_rules from position k on, were the clock to stand
\* still: the results at the end, or the exception that ends the call
RECURSIVE LoopAt(_, _, _, _)
LoopAt(res, rule_list, k, clock) ==
    IF k > Len(rule_list) THEN res
    ELSE LET out == LoopBody(res, rule_list[k], clock)
         IN  IF IsRaise(out) THEN out ELSE LoopAt(out, rule_list, k + 1, clock)

\* what a call of apply_rules made at the time returns
BundleAt(store, d, r, clock) ==
    LoopAt(ApplyRulesEnter(store, d, r).results, store.of[r], 1, clock)

\* a step of a call of apply_rules
ApplyRulesStep == pc = "apply_rules" \/ pc' = "apply_rules" \/ ret'.op = "apply_rules"

\* every rule the loop visited is as effective now as it was at the visit
SameSide == \A k \in 1..Len(visits) : VisitEffective(visits[k]) <=> IsEffective(visits[k].rule, now)

\* C26 as it is put: a call of apply_rules leaves the store and the mapping of
\* the caller as they were, and the same call made again returns the same bundle.
C26_Repeatable ==
    Returned => /\ data = ret.args.data
                /\ ret.value = BundleAt(rules, data, regulator, now)

\* C26, amended: no step of a call of apply_rules, returning or raising,
\* changes the store or the mapping of the caller; the same call made again
\* returns the same bundle when no rule of the list has become effective
\* since the loop visited it.
C26_NoEffectOutsideBundle ==
    /\ [][ApplyRulesStep => /\ rules' = rules
                            /\ pc = "apply_rules" => data' = data]_vars
    /\ [](Returned /\ SameSide =>
              /\ data = ret.args.data
              /\ ret.value = BundleAt(rules, data, regulator, now))

\* a bundle whose data a transformation changed, returned before the clock
\* moved on, with a rule in the list that is not yet effective
C26_Witness ==
    /\ Returned
    /\ SameSide
    /\ now > visits[1].at
    /\ \E k \in 1..Len(visits) : ~VisitEffective(visits[k])
    /\ ret.value.data # data
    /\ data = ret.args.data

(************************* all or nothing ***********************************)
\* visit k is of an effective transformation rule that raises on the data it
\* is handed
FaultsAt(k) ==
    /\ VisitEffective(visits[k])
    /\ visits[k].rule.rule_type = TRANSFORMATION
    /\ IsRaise(_apply_transformation_rule(visits[k].rule, visits[k].handed))

\* the working data after visit k: what the next visit is handed, or what the
\* bundle holds
DataAfter(k) == IF k < Len(visits) THEN visits[k + 1].handed ELSE ret.value.data

\* C27: a transformation rule that raises at one of its fields has an entry
\* with status error, and the working data after it is the data it was
\* handed, with none of the products it had computed for earlier fields.
C27_AllOrNothing ==
    Returned =>
        \A k \in 1..Len(visits) :
            FaultsAt(k) => /\ EntryOf(k).status = "error"
                           /\ DataAfter(k) = visits[k].handed

\* the rule multiplies amount, twice, and then raises at fee, which is None;
\* a rule after it multiplies the amount it finds, which is the first one
C27_Witness ==
    /\ Returned
    /\ Len(visits) = 2
    /\ FaultsAt(1)
    /\ visits[1].rule.parameters.fields = <<"amount", "amount", "fee">>
    /\ visits[1].handed = [amount |-> IntV(5), fee |-> NoneV]
    /\ visits[2].rule.rule_id = "X3"
    /\ RuleIds(ret.value.rule_applications) = <<"XD", "X3">>
    /\ ret.value.rule_applications[1].status = "error"
    /\ ret.value.data = [amount |-> IntV(15), fee |-> NoneV]

(************************* calculations and validations *********************)
\* the effective visits of rules of the type, by their place among the
\* effective visits, which is the place of their entry in rule_applications
EffectiveOf(rule_type) ==
    {k \in 1..Len(EffectiveVisits) : EffectiveVisits[k].rule.rule_type = rule_type}

\* C28: the keys of the bundle's calculations are the rule_ids of the
\* effective calculation rules, those that ended in error included, whose
\* value is None; under a rule_id that several of them have is the output of
\* the last one; validation_results has one element for every effective
\* validation rule.
C28_CalculationsAndValidations ==
    Returned =>
        LET calcs == EffectiveOf(CALCULATION)
            apps == ret.value.rule_applications
        IN  /\ DOMAIN ret.value.calculations = {EffectiveVisits[k].rule.rule_id : k \in calcs}
            /\ \A k \in calcs :
                   /\ apps[k].status = "error" => apps[k].output = NoneV
                   /\ (\A j \in calcs : j > k =>
                           EffectiveVisits[j].rule.rule_id # EffectiveVisits[k].rule.rule_id)
                        => ret.value.calculations[EffectiveVisits[k].rule.rule_id] = apps[k].output
            /\ Len(ret.value.validation_results) = Cardinality(EffectiveOf(VALIDATION))

\* a registered calculation, a validation that raises, and an unregistered
\* calculation with the same rule_id: the key holds None
C28_Witness ==
    /\ Returned
    /\ RuleIds(ret.value.rule_applications) = <<"C1", "V1", "C1">>
    /\ ret.value.rule_applications[1].output = IntV(0)
    /\ ret.value.rule_applications[2].status = "error"
    /\ ret.value.rule_applications[3].status = "error"
    /\ ret.value.calculations = [C1 |-> NoneV]
    /\ Len(ret.value.validation_results) = 1

(************************* a load that fails *******************************)
\* the store with the rules of the first n records of the file appended
RECURSIVE WithRecords(_, _, _)
WithRecords(store, rules_data, n) ==
    IF n = 0 THEN store
    ELSE AppendRule(WithRecords(store, rules_data, n - 1), MakeRule(rules_data[n]))

\* the load_rules call of the second thread ended with an exception
LoadFailed == loading # NoneV /\ loading.done /\ IsRaise(loading.raised)

\* C29: when load_rules raises at record k of a file, the store is the store
\* from before the call with the rules of records 1 to k-1 appended and
\* nothing of record k or the records after it; a call of apply_rules that
\* begins afterwards applies the lists as they then are.
C29_FailedLoadKeepsPrefix ==
    LoadFailed =>
        /\ rules = WithRecords(loading.before, loading.rules_data, loading.i - 1)
        /\ (Returned /\ visits # <<>> /\ visits[1].size = Len(rules.of[regulator])) =>
               /\ Visited = rules.of[regulator]
               /\ RuleIds(ret.value.rule_applications) = RuleIds(rules.of[regulator])

\* the file is rejected at its second record, of three; the first is in the
\* store, the third is not, and a call for the regulator has applied the first
C29_Witness ==
    /\ LoadFailed
    /\ loading.rules_data = <<SecR1, NoVersion, SecR2>>
    /\ loading.i = 2
    /\ loading.before = EmptyStore
    /\ RuleIds(rules.of["SEC"]) = <<"R1">>
    /\ Returned
    /\ regulator = "SEC"
    /\ visits # <<>>
    /\ visits[1].size = 1
    /\ RuleIds(ret.value.rule_applications) = <<"R1">>

(************************* a text against itself ****************************)
\* C30: analyze_regulatory_change of a text against itself reports no change
\* of type, requirements, formula or conditions and the impact LOW, and the
\* step changes nothing but the cache entry under the key of the regulator
\* and the text.
C30_SameTextNoChange ==
    [][(/\ ret'.op = "analyze_regulatory_change"
        /\ now' = now
        /\ ret'.args.old_regulation = ret'.args.new_regulation)
       => LET key == CacheKeyOf[ret'.args.new_regulation, ret'.args.regulator]
          IN  /\ ret'.value = [type_changed |-> FALSE,
                               new_requirements |-> {},
                               removed_requirements |-> {},
                               calculation_changed |-> FALSE,
                               conditions_changed |-> FALSE,
                               impact_assessment |-> "LOW - Minor changes"]
              /\ DOMAIN interpretations_cache' = DOMAIN interpretations_cache \cup {key}
              /\ \A k \in DOMAIN interpretations_cache :
                     k # key => interpretations_cache'[k] = interpretations_cache[k]
              /\ UNCHANGED <<rules, pc, data, regulator, idx, results, visits, loading>>]_vars

\* a calculation with a known formula against itself, with the entry of
\* another text in the cache before and after
C30_Witness ==
    /\ ret.op = "analyze_regulatory_change"
    /\ ret.args.old_regulation = TxY
    /\ ret.args.new_regulation = TxY
    /\ ret.value.impact_assessment = "LOW - Minor changes"
    /\ ~ret.value.calculation_changed
    /\ DOMAIN interpretations_cache = {CacheKeyOf[TxY, "SEC"], CacheKeyOf[TxReport, "SEC"]}
    /\ interpretations_cache[CacheKeyOf[TxY, "SEC"]].calculation_formula # NoneV

====
